---- MODULE Spec2Model ----
(***************************************************************************)
(* Step-by-step tutorial extension: the tutorial orchestrator              *)
(* (TutorialManager), the version-control adapter (GitService) and the     *)
(* progress store (ProgressTracker), as state machines.                    *)
(*                                                                         *)
(* Every async method is cut at its awaits: one action per segment that    *)
(* runs between two suspension points.  The working trees, the prompt and  *)
(* the file system are the environment; their answers are drawn with \E.   *)
(***************************************************************************)
EXTENDS Integers, Sequences, FiniteSets, TLC

VARIABLES
    currentTutorial,  \* TutorialManager.currentTutorial (NoTutorial = undefined)
    gitRepoPath,      \* GitService.repoPath / git: the bound working tree, or NoPath
    HEAD,             \* per working tree: the ref HEAD resolves to
    wt,               \* per working tree: the kinds of uncommitted change it holds
    stashDepth,       \* per working tree: entries on the stash stack
    loadedEvents,     \* what onTutorialLoadedEmitter fired, in order
    stepEvents,       \* what onStepChangedEmitter fired, in order
    nav,              \* per navigateToStep call: its position and locals
    load,             \* the loadTutorial call: its position and locals
    calls,            \* loadTutorial and navigateToStep calls started so far
    progressCache,    \* ProgressTracker.progressCache
    storage,          \* globalState[STORAGE_KEY]: whether a value is stored, and the value
    context,          \* ProgressTracker.context is set (initialize was called)
    now,              \* the clock Date.now() reads
    queried,          \* the last getStepStatus call and what it returned
    diffRequest,      \* the getDiff call the step-changed handler issued last
    input,            \* the argument of the call of a pure function under study
    output            \* what that call returned or threw (NoOutput before the call)

vars == <<currentTutorial, gitRepoPath, HEAD, wt, stashDepth, loadedEvents,
          stepEvents, nav, load, calls, progressCache, storage, context, now,
          queried, diffRequest, input, output>>

pureVars == <<input, output>>
gitVars == <<HEAD, wt, stashDepth>>
progressVars == <<progressCache, storage, context, now, queried>>
managerVars == <<currentTutorial, gitRepoPath, HEAD, wt, stashDepth, loadedEvents,
                 stepEvents, nav, load, calls, diffRequest>>

----------------------------------------------------------------------------
(* Bounds *)

\* loadTutorial and navigateToStep calls that may be started in all
MaxCalls == 3
\* navigateToStep calls that may be in flight at once
MaxInFlight == 2
\* ticks of the clock
MaxTime == 2

\* null / undefined for step ids and refs, and for paths and tutorial ids
Null == "null"
\* no pure function is being called
NoInput == [t |-> "undefined"]
NoOutput == [threw |-> FALSE, pending |-> TRUE]
NoPath == <<>>

NavCalls == 1..MaxInFlight

----------------------------------------------------------------------------
(* Step configurations and step nodes *)

StepIds == {"s1", "s2", "s3"}
\* the step ids navigateToStep is called with
NavTargets == {"s1", "s2"}
Refs == {"r0", "r1", "r2", "r3"}

StepConfig(id, gitRef, parentId) ==
    [id |-> id, gitRef |-> gitRef, parentId |-> parentId]

\* config.parentId || null : an absent or empty parentId becomes null
ParentOrNull(parentId) == IF parentId \in {Null, ""} THEN Null ELSE parentId

\* the positions of configs that insert a new key into nodeMap (first occurrences)
NodeKeys(configs) ==
    SelectSeq([i \in 1..Len(configs) |-> i],
              LAMBDA i : \A j \in 1..(i - 1) : configs[j].id # configs[i].id)

\* nodeMap.get(id) after the first pass: built from the last config with that id
NodeConfig(configs, id) ==
    configs[CHOOSE i \in 1..Len(configs) :
                /\ configs[i].id = id
                /\ \A j \in (i + 1)..Len(configs) : configs[j].id # id]

\* a second pass that links each parent to its first child only
ChildrenOf_FirstOnly(configs, keys, id, k) ==
    LET found == {j \in k..Len(keys) :
                     ParentOrNull(NodeConfig(configs, configs[keys[j]].id).parentId) = id}
    IN  IF found = {} THEN <<>>
        ELSE <<configs[keys[CHOOSE j \in found : \A l \in found : j <= l]].id>>

RECURSIVE ChildrenOf_Unshift(_, _, _, _)
\* a second pass that puts each child at the front of its parent's list
ChildrenOf_Unshift(configs, keys, id, k) ==
    IF k > Len(keys) THEN <<>>
    ELSE LET c == NodeConfig(configs, configs[keys[k]].id)
         IN  ChildrenOf_Unshift(configs, keys, id, k + 1)
             \o (IF ParentOrNull(c.parentId) = id THEN <<c.id>> ELSE <<>>)

RECURSIVE ChildrenOf_AdoptOrphans(_, _, _, _)
\* a second pass that hands a node whose parent is missing to the first node
ChildrenOf_AdoptOrphans(configs, keys, id, k) ==
    IF k > Len(keys) THEN <<>>
    ELSE LET c == NodeConfig(configs, configs[keys[k]].id)
             parent == ParentOrNull(c.parentId)
             missing == parent # Null /\ \A i \in 1..Len(configs) : configs[i].id # parent
         IN  (IF parent = id \/ (missing /\ id = configs[keys[1]].id /\ c.id # id)
              THEN <<c.id>> ELSE <<>>)
             \o ChildrenOf_AdoptOrphans(configs, keys, id, k + 1)

RECURSIVE ChildrenOf(_, _, _, _)
\* the ids the second pass pushes to the node `id`, walking nodeMap from keys[k]
ChildrenOf(configs, keys, id, k) ==
    IF k > Len(keys) THEN <<>>
    ELSE LET c == NodeConfig(configs, configs[keys[k]].id)
         IN  (IF ParentOrNull(c.parentId) = id THEN <<c.id>> ELSE <<>>)
             \o ChildrenOf(configs, keys, id, k + 1)

\* ConfigParser.buildStepTree
buildStepTree(configs) ==
    LET keys == NodeKeys(configs)
    IN  [k \in 1..Len(keys) |->
            LET c == NodeConfig(configs, configs[keys[k]].id)
            IN  [id       |-> c.id,
                 gitRef   |-> c.gitRef,
                 parentId |-> ParentOrNull(c.parentId),
                 children |-> ChildrenOf(configs, keys, c.id, 1)]]

NoStep == [id |-> Null, gitRef |-> Null, parentId |-> Null, children |-> <<>>]

\* Array.prototype.find(s => s.id === stepId); NoStep stands for undefined
FindStep(steps, stepId) ==
    IF \E i \in 1..Len(steps) : steps[i].id = stepId
    THEN steps[CHOOSE i \in 1..Len(steps) :
                   /\ steps[i].id = stepId
                   /\ \A j \in 1..(i - 1) : steps[j].id # stepId]
    ELSE NoStep

----------------------------------------------------------------------------
(* Sources, working trees and tutorial ids *)

\* a source is the string given to loadTutorial: its scheme prefix and the rest
LocalSource  == [prefix |-> "",         rest |-> <<47, 97>>]   \* "/a"
RemoteSource == [prefix |-> "https://", rest |-> <<104>>]      \* "https://h"
Sources == {LocalSource, RemoteSource}

\* TutorialManager.isRemoteUrl
isRemoteUrl(source) ==
    source.prefix \in {"http://", "https://", "git@", "git://"}

\* the directory the clone of load t is made in (getTempDir()/tutorial-<Date.now()>,
\* a new one for every load), as bytes "/t<t>"
TempDir(t) == <<47, 116, 48 + t>>

Paths == {LocalSource.rest} \cup {TempDir(t) : t \in 1..MaxCalls}

\* the configuration document found at the root of each working tree
ConfigAt(path) ==
    IF path # LocalSource.rest
    THEN [name |-> "T", steps |-> <<StepConfig("s2", "r3", Null),
                                   StepConfig("s3", "r2", "s2")>>]
    ELSE [name |-> "A", steps |-> <<StepConfig("s1", "r1", Null),
                                   StepConfig("s2", "r2", "s1")>>]

\* Base64 alphabet positions 0..63; 64 is the padding '=' and 65 is '_'
B64Pad == 64
B64Underscore == 65

RECURSIVE Base64(_)
\* Buffer.from(bytes).toString('base64'), as alphabet positions
Base64(bytes) ==
    IF Len(bytes) = 0 THEN <<>>
    ELSE IF Len(bytes) = 1 THEN
        <<bytes[1] \div 4, (bytes[1] % 4) * 16, B64Pad, B64Pad>>
    ELSE IF Len(bytes) = 2 THEN
        <<bytes[1] \div 4, (bytes[1] % 4) * 16 + bytes[2] \div 16,
          (bytes[2] % 16) * 4, B64Pad>>
    ELSE
        <<bytes[1] \div 4, (bytes[1] % 4) * 16 + bytes[2] \div 16,
          (bytes[2] % 16) * 4 + bytes[3] \div 64, bytes[3] % 64>>
        \o Base64(SubSeq(bytes, 4, Len(bytes)))

\* TutorialManager.generateTutorialId: base64, then / + = replaced by _
generateTutorialId(repoPath) ==
    LET b == Base64(repoPath)
    IN  [i \in 1..Len(b) |-> IF b[i] \in {62, 63, B64Pad} THEN B64Underscore ELSE b[i]]

\* the tutorial ids the progress store is called with
TutorialIds == {generateTutorialId(LocalSource.rest), generateTutorialId(TempDir(1))}

\* the Tutorial object; serial tells the objects of different loads apart
NoTutorial ==
    [id |-> NoPath, name |-> Null, rootPath |-> NoPath, steps |-> <<>>,
     currentStepId |-> Null, serial |-> 0]

----------------------------------------------------------------------------
(* Results of the async calls *)

Pending == [status |-> "pending", name |-> Null, message |-> Null, details |-> <<>>]
Resolved == [status |-> "resolved", name |-> Null, message |-> Null, details |-> <<>>]
\* the bare `return` of a navigation cancelled at the prompt
Cancelled == [status |-> "cancelled", name |-> Null, message |-> Null, details |-> <<>>]
\* a thrown error: its class name, what it is about, and what its message lists
Rejected(name, message, details) ==
    [status |-> "rejected", name |-> name, message |-> message, details |-> details]

----------------------------------------------------------------------------
(* Progress store (ProgressTracker) *)

EmptyMap == [k \in {} |-> Null]

NothingStored == [stored |-> FALSE, data |-> EmptyMap]

Includes(seq, x) == \E i \in 1..Len(seq) : seq[i] = x

\* the record getProgress creates for an unknown tutorial id
NewProgress(tutorialId) ==
    [tutorialId |-> tutorialId, currentStepId |-> Null, completedSteps |-> <<>>,
     lastAccessTime |-> now]

\* The operations below take and return a store st = [cache, storage].

\* the key "__proto__", in the alphabet positions tutorial ids are written in
ProtoKey == <<65, 65, 41, 43, 40, 45, 40, 65, 65>>

\* the loop with `data = { [key]: value }` in place of `data[key] = value`: only the
\* entry written last survives
ToObject_LastEntryOnly(cache) ==
    IF DOMAIN cache = {} THEN cache
    ELSE LET last == CHOOSE k \in DOMAIN cache : TRUE
         IN  [k \in {last} |-> cache[k]]

\* progressCache.forEach((value, key) => data[key] = value) on a plain object: every
\* entry becomes an own property, but assigning to __proto__ creates none
ToObject(cache) ==
    [k \in (DOMAIN cache) \ {ProtoKey} |-> cache[k]]

\* new Map(Object.entries(data))
FromObject(data) == [k \in DOMAIN data |-> data[k]]

\* JSON.stringify of a string | null, a string[] and a number, as tagged tokens
StringifyString(x) == IF x = Null THEN <<"null">> ELSE <<"string", x>>
StringifyArray(xs) == <<"array", [i \in 1..Len(xs) |-> StringifyString(xs[i])]>>
StringifyNumber(n) == <<"number", n>>

\* JSON.stringify of a TutorialProgress
StringifyProgress(r) ==
    [tutorialId     |-> <<"string", r.tutorialId>>,
     currentStepId  |-> StringifyString(r.currentStepId),
     completedSteps |-> StringifyArray(r.completedSteps),
     lastAccessTime |-> StringifyNumber(r.lastAccessTime)]

\* JSON.parse of the tokens
ParseValue(token) ==
    IF token[1] = "null" THEN Null
    ELSE IF token[1] = "array"
    THEN [i \in 1..Len(token[2]) |-> IF token[2][i][1] = "null" THEN Null
                                     ELSE token[2][i][2]]
    ELSE token[2]

\* JSON.parse of a TutorialProgress
ParseProgress(j) ==
    [tutorialId     |-> j.tutorialId[2],
     currentStepId  |-> ParseValue(j.currentStepId),
     completedSteps |-> ParseValue(j.completedSteps),
     lastAccessTime |-> ParseValue(j.lastAccessTime)]

\* ProgressTracker.serialize: the JSON text, as the object it denotes
serialize(st) ==
    LET data == ToObject(st.cache)
    IN  [k \in DOMAIN data |-> StringifyProgress(data[k])]

\* ProgressTracker.deserialize
deserialize(st, json) ==
    [st EXCEPT !.cache = FromObject([k \in DOMAIN json |-> ParseProgress(json[k])])]

\* ProgressTracker.saveToStorage
saveToStorage(st) ==
    IF ~context THEN st
    ELSE [st EXCEPT !.storage = [stored |-> TRUE, data |-> ToObject(st.cache)]]

\* getProgress handing out a fresh record on every call, registered over the old one
getProgress_FreshCopy(st, tutorialId) ==
    [st EXCEPT !.cache =
        [k \in (DOMAIN st.cache) \cup {tutorialId} |->
            IF k = tutorialId THEN NewProgress(tutorialId) ELSE st.cache[k]]]

\* ProgressTracker.getProgress: the store after the call (the record is cache[tutorialId])
getProgress(st, tutorialId) ==
    IF tutorialId \in DOMAIN st.cache THEN st
    ELSE [st EXCEPT !.cache = st.cache @@ (tutorialId :> NewProgress(tutorialId))]

\* markStepCompleted without the includes() test: it pushes every time
markStepCompleted_AlwaysPush(st, tutorialId, stepId) ==
    LET st1 == getProgress(st, tutorialId)
    IN  saveToStorage([st1 EXCEPT
            !.cache[tutorialId].completedSteps = Append(@, stepId),
            !.cache[tutorialId].lastAccessTime = now])

\* markStepCompleted with the refresh and the save moved out of the includes() test
markStepCompleted_AlwaysRefresh(st, tutorialId, stepId) ==
    LET st1 == getProgress(st, tutorialId)
        st2 == IF ~Includes(st1.cache[tutorialId].completedSteps, stepId)
               THEN [st1 EXCEPT !.cache[tutorialId].completedSteps = Append(@, stepId)]
               ELSE st1
    IN  saveToStorage([st2 EXCEPT !.cache[tutorialId].lastAccessTime = now])

\* ProgressTracker.markStepCompleted
markStepCompleted(st, tutorialId, stepId) ==
    LET st1 == getProgress(st, tutorialId)
    IN  IF ~Includes(st1.cache[tutorialId].completedSteps, stepId)
        THEN saveToStorage([st1 EXCEPT
                 !.cache[tutorialId].completedSteps = Append(@, stepId),
                 !.cache[tutorialId].lastAccessTime = now])
        ELSE st1

\* setCurrentStep that overwrites the current step and forgets the previous one
setCurrentStep_ForgetPrevious(st, tutorialId, stepId) ==
    LET st1 == getProgress(st, tutorialId)
    IN  saveToStorage([st1 EXCEPT
            !.cache[tutorialId].currentStepId = stepId,
            !.cache[tutorialId].lastAccessTime = now])

\* setCurrentStep that takes the new current step out of the completed steps
setCurrentStep_Uncomplete(st, tutorialId, stepId) ==
    LET st1 == getProgress(st, tutorialId)
        prev == st1.cache[tutorialId].currentStepId
        st2 == IF prev # Null /\ prev # stepId
               THEN markStepCompleted(st1, tutorialId, prev)
               ELSE st1
    IN  saveToStorage([st2 EXCEPT
            !.cache[tutorialId].currentStepId = stepId,
            !.cache[tutorialId].completedSteps = SelectSeq(@, LAMBDA s : s # stepId),
            !.cache[tutorialId].lastAccessTime = now])

\* ProgressTracker.setCurrentStep
setCurrentStep(st, tutorialId, stepId) ==
    LET st1 == getProgress(st, tutorialId)
        prev == st1.cache[tutorialId].currentStepId
        st2 == IF prev # Null /\ prev # stepId
               THEN markStepCompleted(st1, tutorialId, prev)
               ELSE st1
    IN  saveToStorage([st2 EXCEPT
            !.cache[tutorialId].currentStepId = stepId,
            !.cache[tutorialId].lastAccessTime = now])

\* resetProgress without its saveToStorage() call
resetProgress_NoSave(st, tutorialId) ==
    [st EXCEPT !.cache =
        [k \in (DOMAIN st.cache) \cup {tutorialId} |->
            IF k = tutorialId THEN NewProgress(tutorialId) ELSE st.cache[k]]]

\* resetProgress clearing the current step only, on the record as it is
resetProgress_KeepCompleted(st, tutorialId) ==
    LET st1 == getProgress(st, tutorialId)
    IN  saveToStorage([st1 EXCEPT !.cache[tutorialId].currentStepId = Null,
                                  !.cache[tutorialId].lastAccessTime = now])

\* ProgressTracker.resetProgress
resetProgress(st, tutorialId) ==
    saveToStorage([st EXCEPT !.cache =
        [k \in (DOMAIN st.cache) \cup {tutorialId} |->
            IF k = tutorialId THEN NewProgress(tutorialId) ELSE st.cache[k]]])

\* deleteProgress emptying the whole cache: progressCache.clear()
deleteProgress_ClearAll(st, tutorialId) ==
    saveToStorage([st EXCEPT !.cache = EmptyMap])

\* ProgressTracker.deleteProgress
deleteProgress(st, tutorialId) ==
    saveToStorage([st EXCEPT !.cache =
        [k \in (DOMAIN st.cache) \ {tutorialId} |-> st.cache[k]]])

\* getStepStatus with its two tests in the other order: completed wins over current
getStepStatus_CompletedFirst(st, tutorialId, stepId) ==
    LET progress == getProgress(st, tutorialId).cache[tutorialId]
    IN  IF Includes(progress.completedSteps, stepId) THEN "completed"
        ELSE IF progress.currentStepId = stepId THEN "current"
        ELSE "pending"

\* ProgressTracker.getStepStatus: the status it returns (on the store after getProgress)
getStepStatus(st, tutorialId, stepId) ==
    LET progress == getProgress(st, tutorialId).cache[tutorialId]
    IN  IF progress.currentStepId = stepId THEN "current"
        ELSE IF Includes(progress.completedSteps, stepId) THEN "completed"
        ELSE "pending"

\* ProgressTracker.loadFromStorage
loadFromStorage(st) ==
    IF ~st.storage.stored THEN st ELSE [st EXCEPT !.cache = FromObject(st.storage.data)]

Store == [cache |-> progressCache, storage |-> storage]

NoQuery == [tutorialId |-> NoPath, stepId |-> Null, status |-> Null]

\* writes a store back to the variables
SetStore(st) ==
    /\ progressCache' = st.cache
    /\ storage' = st.storage

----------------------------------------------------------------------------
(* Version-control adapter (GitService) *)

\* GitService.getGit succeeds (it throws when nothing is bound)
Bound == gitRepoPath # NoPath

NotInitialized ==
    Rejected("Error", "Git service not initialized", <<>>)

\* GitService.hasUncommittedChanges on the working tree at `path`: !status.isClean()
hasUncommittedChanges(path) == wt[path] # {}

\* the working trees after `git stash push` at `path`: tracked changes are put away
StashEffect(path) ==
    IF "tracked" \in wt[path]
    THEN /\ wt' = [wt EXCEPT ![path] = @ \ {"tracked"}]
         /\ stashDepth' = [stashDepth EXCEPT ![path] = @ + 1]
    ELSE UNCHANGED <<wt, stashDepth>>

\* the working trees after `git checkout ref` succeeded at `path`
CheckoutEffect(path, ref) == HEAD' = [HEAD EXCEPT ![path] = ref]

----------------------------------------------------------------------------
(* Tutorial orchestrator (TutorialManager): navigateToStep *)

\* pc is where the call is suspended; stepId and step are its locals; repo is the
\* working tree the git command it awaits runs in; tutorial (the Tutorial object that
\* was loaded when it was called) is kept for the record
IdleNav ==
    [pc |-> "idle", stepId |-> Null, step |-> NoStep, repo |-> NoPath,
     tutorial |-> 0, result |-> Pending]

\* the call returns or throws: its locals are gone, its result is what the caller sees
Finish(n, result) == [IdleNav EXCEPT !.pc = "done", !.result = result]

\* the call invokes a GitService method and suspends on it
CallGit(n, op) ==
    IF ~Bound THEN Finish(n, NotInitialized)
    ELSE [n EXCEPT !.pc = op, !.repo = gitRepoPath]

\* navigateToStep up to its first await
NavEnter(n, stepId) ==
    IF currentTutorial = NoTutorial
    THEN Finish(n, Rejected("Error", "no tutorial loaded", <<>>))
    ELSE LET step == FindStep(currentTutorial.steps, stepId)
         IN  IF step = NoStep
             THEN Finish(n, Rejected("Error", "step not found", <<stepId>>))
             ELSE CallGit([n EXCEPT !.step = step,
                                    !.tutorial = currentTutorial.serial], "status")

\* the prompt's answer handled without the final `return`: whatever is not the stash
\* choice goes on to the checkout
AfterPrompt_CancelContinues(n, choice) ==
    IF choice = "stash" THEN CallGit(n, "stash")
    ELSE CallGit(n, "checkout")

\* what navigateToStep does with the answer of the prompt
AfterPrompt(n, choice) ==
    IF choice = "stash" THEN CallGit(n, "stash")
    ELSE IF choice = "discard" THEN CallGit(n, "checkout")
    ELSE Finish(n, Cancelled)

\* what navigateToStep does with the answer of hasUncommittedChanges
AfterStatus(n, hasChanges) ==
    IF hasChanges THEN [n EXCEPT !.pc = "prompt"]
    ELSE CallGit(n, "checkout")

PromptChoices == {"stash", "discard", "cancel", "dismissed"}

\* a call of navigateToStep, up to its first await; it takes the first free record
NavStart(p, stepId) ==
    /\ nav[p].pc \in {"idle", "done"}
    /\ \A q \in NavCalls : q < p => nav[q].pc \notin {"idle", "done"}
    /\ calls < MaxCalls
    /\ calls' = calls + 1
    /\ nav' = [nav EXCEPT ![p] = NavEnter([IdleNav EXCEPT !.stepId = stepId], stepId)]
    /\ UNCHANGED <<pureVars, diffRequest, currentTutorial, gitRepoPath, gitVars, loadedEvents, stepEvents,
                   load, progressVars>>

\* git.status() completes
NavStatus(p, ok) ==
    /\ nav[p].pc = "status"
    /\ nav' = [nav EXCEPT ![p] =
                 IF ok THEN AfterStatus(@, hasUncommittedChanges(@.repo))
                 ELSE Finish(@, Rejected("GitError", "status", <<>>))]
    /\ UNCHANGED <<pureVars, diffRequest, currentTutorial, gitRepoPath, gitVars, loadedEvents, stepEvents,
                   load, calls, progressVars>>

\* the warning message is answered or dismissed
NavPrompt(p, choice) ==
    /\ nav[p].pc = "prompt"
    /\ nav' = [nav EXCEPT ![p] = AfterPrompt(@, choice)]
    /\ UNCHANGED <<pureVars, diffRequest, currentTutorial, gitRepoPath, gitVars, loadedEvents, stepEvents,
                   load, calls, progressVars>>

\* git.stash() completes
NavStash(p, ok) ==
    /\ nav[p].pc = "stash"
    /\ IF ok
       THEN /\ StashEffect(nav[p].repo)
            /\ nav' = [nav EXCEPT ![p] = CallGit(@, "checkout")]
       ELSE /\ nav' = [nav EXCEPT ![p] = Finish(@, Rejected("GitError", "stash", <<>>))]
            /\ UNCHANGED <<wt, stashDepth>>
    /\ UNCHANGED <<pureVars, diffRequest, currentTutorial, gitRepoPath, HEAD, loadedEvents, stepEvents,
                   load, calls, progressVars>>

\* the checkout with currentStepId assigned before its outcome is known
NavCheckout_OptimisticUpdate(p, ok) ==
    /\ nav[p].pc = "checkout"
    /\ currentTutorial' = IF currentTutorial = NoTutorial THEN NoTutorial
                          ELSE [currentTutorial EXCEPT !.currentStepId = nav[p].stepId]
    /\ IF ok
       THEN /\ CheckoutEffect(nav[p].repo, nav[p].step.gitRef)
            /\ nav' = [nav EXCEPT ![p].pc = "update"]
       ELSE /\ nav' = [nav EXCEPT ![p] = Finish(@, Rejected("GitError", "checkout", <<>>))]
            /\ UNCHANGED HEAD
    /\ UNCHANGED <<pureVars, diffRequest, gitRepoPath, wt, stashDepth, loadedEvents,
                   stepEvents, load, calls, progressVars>>

\* git.checkout() completes
NavCheckout(p, ok) ==
    /\ nav[p].pc = "checkout"
    /\ IF ok
       THEN /\ CheckoutEffect(nav[p].repo, nav[p].step.gitRef)
            /\ nav' = [nav EXCEPT ![p].pc = "update"]
       ELSE /\ nav' = [nav EXCEPT ![p] = Finish(@, Rejected("GitError", "checkout", <<>>))]
            /\ UNCHANGED HEAD
    /\ UNCHANGED <<pureVars, diffRequest, currentTutorial, gitRepoPath, wt, stashDepth, loadedEvents,
                   stepEvents, load, calls, progressVars>>

\* the onStepChanged listener up to its first await
OnStepChanged(st, tutorial, step) ==
    IF tutorial = NoTutorial THEN st
    ELSE setCurrentStep(st, tutorial.id, step.id)

\* no getDiff call was issued yet
NoDiff == [fromRef |-> Null, toRef |-> Null, repo |-> NoPath, progress |-> Null]

\* tutorial.steps[stepIndex - 1] for stepIndex > 0, else null (NoStep)
PreviousStep(tutorial, step) ==
    LET at == {i \in 1..Len(tutorial.steps) : tutorial.steps[i].id = step.id}
        stepIndex == IF at = {} THEN 0 ELSE CHOOSE i \in at : \A j \in at : i <= j
    IN  IF stepIndex > 1 THEN tutorial.steps[stepIndex - 1] ELSE NoStep

\* DiffViewerManager.showStepDiff up to its await: the getDiff call it issues on
\* the bound working tree, with what the tutorial's progress record says is the
\* current step at that moment
showStepDiff(st, shown, tutorial, step) ==
    IF ~Bound THEN shown
    ELSE [fromRef  |-> IF PreviousStep(tutorial, step).gitRef = Null
                       THEN "" ELSE PreviousStep(tutorial, step).gitRef,
          toRef    |-> step.gitRef,
          repo     |-> gitRepoPath,
          progress |-> IF tutorial.id \in DOMAIN st.cache
                       THEN st.cache[tutorial.id].currentStepId ELSE Null]

\* a listener that shows the diff first and updates the progress after it
StepChangedHandler_DiffFirst(st, shown, tutorial, step) ==
    IF tutorial = NoTutorial THEN [store |-> st, diff |-> shown]
    ELSE [store |-> OnStepChanged(st, tutorial, step),
          diff  |-> showStepDiff(st, shown, tutorial, step)]

\* the onStepChanged listener up to its first await: the progress update, then
\* the diff
StepChangedHandler(st, shown, tutorial, step) ==
    IF tutorial = NoTutorial THEN [store |-> st, diff |-> shown]
    ELSE [store |-> OnStepChanged(st, tutorial, step),
          diff  |-> showStepDiff(OnStepChanged(st, tutorial, step), shown, tutorial, step)]

\* after withProgress: the assignment of currentStepId and the step-changed event
NavUpdate(p) ==
    /\ nav[p].pc = "update"
    /\ IF currentTutorial = NoTutorial
       THEN /\ nav' = [nav EXCEPT ![p] =
                         Finish(@, Rejected("TypeError", "currentTutorial is undefined", <<>>))]
            /\ UNCHANGED <<currentTutorial, stepEvents, progressCache, storage, diffRequest>>
       ELSE /\ currentTutorial' = [currentTutorial EXCEPT !.currentStepId = nav[p].stepId]
            /\ stepEvents' = Append(stepEvents, [step |-> nav[p].step, call |-> p])
            /\ LET handled == StepChangedHandler(Store, diffRequest, currentTutorial',
                                                 nav[p].step)
               IN  /\ SetStore(handled.store)
                   /\ diffRequest' = handled.diff
            /\ nav' = [nav EXCEPT ![p].pc = "refresh"]
    /\ UNCHANGED <<pureVars, gitRepoPath, gitVars, loadedEvents, load, calls, context, now, queried>>

\* refreshOpenEditors completes and navigateToStep returns
NavRefresh(p) ==
    /\ nav[p].pc = "refresh"
    /\ nav' = [nav EXCEPT ![p] = Finish(@, Resolved)]
    /\ UNCHANGED <<pureVars, diffRequest, currentTutorial, gitRepoPath, gitVars, loadedEvents, stepEvents,
                   load, calls, progressVars>>

----------------------------------------------------------------------------
(* Tutorial orchestrator (TutorialManager): loadTutorial, closeTutorial *)

IdleLoad ==
    [pc |-> "idle", source |-> LocalSource, repoPath |-> NoPath, steps |-> <<>>,
     name |-> Null, idx |-> 0, probes |-> <<>>, invalidRefs |-> <<>>,
     result |-> Pending, serial |-> 0]

\* loadTutorial returns or throws; the steps it read and the answers refExists gave
\* are kept for the record
FinishLoad(l, result) ==
    [IdleLoad EXCEPT !.pc = "done", !.result = result, !.serial = l.serial,
                     !.steps = l.steps, !.probes = l.probes]

\* the outcomes of looking for the config document and parsing it
ConfigOutcomes == {"ok", "not found", "invalid"}

\* the Tutorial object loadTutorial constructs
NewTutorial(l) ==
    [id |-> generateTutorialId(l.repoPath), name |-> l.name, rootPath |-> l.repoPath,
     steps |-> buildStepTree(l.steps), currentStepId |-> Null, serial |-> l.serial]

\* validateGitRefs giving up at the first ref that does not resolve
ProbesDone_StopAtFirstInvalid(l, invalidRefs) ==
    l.idx = Len(l.steps) \/ Len(invalidRefs) > 0

\* validateGitRefs: the loop over config.steps has ended after step idx
ProbesDone(l, invalidRefs) == l.idx = Len(l.steps)

\* validateGitRefs: what is recorded for step idx when refExists answered `exists`
RecordProbe(l, exists) ==
    IF exists THEN l.invalidRefs
    ELSE Append(l.invalidRefs, <<l.steps[l.idx].id, l.steps[l.idx].gitRef>>)

\* a call of loadTutorial, up to its first await (made when no other load is under way)
LoadStart(source) ==
    /\ load.pc \in {"idle", "done"}
    /\ calls < MaxCalls
    /\ calls' = calls + 1
    /\ IF isRemoteUrl(source)
       THEN /\ load' = [IdleLoad EXCEPT !.pc = "clone", !.source = source,
                                        !.repoPath = TempDir(load.serial + 1),
                                        !.serial = load.serial + 1]
            /\ UNCHANGED gitRepoPath
       ELSE /\ load' = [IdleLoad EXCEPT !.pc = "config", !.source = source,
                                        !.repoPath = source.rest, !.serial = load.serial + 1]
            /\ gitRepoPath' = source.rest
    /\ UNCHANGED <<pureVars, diffRequest, currentTutorial, gitVars, loadedEvents, stepEvents, nav, progressVars>>

\* git.clone() completes: a fresh working tree exists at the target and is bound
LoadClone(ok) ==
    /\ load.pc = "clone"
    /\ IF ok
       THEN /\ HEAD' = [HEAD EXCEPT ![load.repoPath] = "r0"]
            /\ wt' = [wt EXCEPT ![load.repoPath] = {}]
            /\ stashDepth' = [stashDepth EXCEPT ![load.repoPath] = 0]
            /\ gitRepoPath' = load.repoPath
            /\ load' = [load EXCEPT !.pc = "config"]
       ELSE /\ load' = FinishLoad(load, Rejected("GitError", "clone", <<>>))
            /\ UNCHANGED <<gitRepoPath, gitVars>>
    /\ UNCHANGED <<pureVars, diffRequest, currentTutorial, loadedEvents, stepEvents, nav, calls, progressVars>>

\* findConfigFile and configParser.parse complete; validateGitRefs probes the first ref
LoadConfig(outcome) ==
    /\ load.pc = "config"
    /\ load' =
         IF outcome = "not found"
         THEN FinishLoad(load, Rejected("Error", "config file not found", <<>>))
         ELSE IF outcome = "invalid"
         THEN FinishLoad(load, Rejected("Error", "invalid tutorial config", <<>>))
         ELSE IF ~Bound THEN FinishLoad(load, NotInitialized)
         ELSE [load EXCEPT !.pc = "refs", !.idx = 1,
                           !.steps = ConfigAt(load.repoPath).steps,
                           !.name = ConfigAt(load.repoPath).name]
    /\ UNCHANGED <<pureVars, diffRequest, currentTutorial, gitRepoPath, gitVars, loadedEvents, stepEvents,
                   nav, calls, progressVars>>

\* the last probe with the Tutorial assigned and announced before invalidRefs is tested
LoadProbe_PublishBeforeCheck(exists) ==
    /\ load.pc = "refs"
    /\ LET invalidRefs == RecordProbe(load, exists)
           l == [load EXCEPT !.probes = Append(@, exists), !.invalidRefs = invalidRefs]
       IN  IF ~ProbesDone(load, invalidRefs)
           THEN /\ load' = [l EXCEPT !.idx = @ + 1]
                /\ UNCHANGED <<currentTutorial, loadedEvents>>
           ELSE /\ load' = FinishLoad(l, IF Len(invalidRefs) > 0
                                         THEN Rejected("Error", "invalid git refs", invalidRefs)
                                         ELSE Resolved)
                /\ currentTutorial' = NewTutorial(l)
                /\ loadedEvents' = Append(loadedEvents, NewTutorial(l))
    /\ UNCHANGED <<pureVars, diffRequest, gitRepoPath, gitVars, stepEvents, nav, calls, progressVars>>

\* refExists answers for step idx; after the last step the load fails or completes
LoadProbe(exists) ==
    /\ load.pc = "refs"
    /\ LET invalidRefs == RecordProbe(load, exists)
           l == [load EXCEPT !.probes = Append(@, exists), !.invalidRefs = invalidRefs]
       IN  IF ~ProbesDone(load, invalidRefs)
           THEN /\ load' = [l EXCEPT !.idx = @ + 1]
                /\ UNCHANGED <<currentTutorial, loadedEvents>>
           ELSE IF Len(invalidRefs) > 0
           THEN /\ load' = FinishLoad(l, Rejected("Error", "invalid git refs", invalidRefs))
                /\ UNCHANGED <<currentTutorial, loadedEvents>>
           ELSE /\ load' = FinishLoad(l, Resolved)
                /\ currentTutorial' = NewTutorial(l)
                /\ loadedEvents' = Append(loadedEvents, NewTutorial(l))
    /\ UNCHANGED <<pureVars, diffRequest, gitRepoPath, gitVars, stepEvents, nav, calls, progressVars>>

\* TutorialManager.closeTutorial
CloseTutorial ==
    /\ currentTutorial # NoTutorial
    /\ currentTutorial' = NoTutorial
    /\ UNCHANGED <<pureVars, diffRequest, gitRepoPath, gitVars, loadedEvents, stepEvents, nav, load,
                   calls, progressVars>>

\* the user changes files in the clean working tree of the open tutorial
UserEdit(kind) ==
    /\ currentTutorial # NoTutorial
    /\ wt[currentTutorial.rootPath] = {}
    /\ wt' = [wt EXCEPT ![currentTutorial.rootPath] = @ \cup {kind}]
    /\ UNCHANGED <<pureVars, diffRequest, currentTutorial, gitRepoPath, HEAD, stashDepth, loadedEvents,
                   stepEvents, nav, load, calls, progressVars>>

----------------------------------------------------------------------------
(* The extension: the manager with its adapter, listeners and an initialized store *)

Init ==
    /\ currentTutorial = NoTutorial
    /\ gitRepoPath = NoPath
    /\ HEAD = [p \in Paths |-> "r0"]
    /\ wt = [p \in Paths |-> {}]
    /\ stashDepth = [p \in Paths |-> 0]
    /\ loadedEvents = <<>>
    /\ stepEvents = <<>>
    /\ nav = [p \in NavCalls |-> IdleNav]
    /\ load = IdleLoad
    /\ calls = 0
    /\ diffRequest = NoDiff
    /\ progressCache = EmptyMap
    /\ storage = NothingStored
    /\ context = TRUE
    /\ now = 0
    /\ queried = NoQuery
    /\ input = NoInput
    /\ output = NoOutput

Next ==
    \/ \E source \in Sources : LoadStart(source)
    \/ \E ok \in BOOLEAN : LoadClone(ok)
    \/ \E outcome \in ConfigOutcomes : LoadConfig(outcome)
    \/ \E exists \in BOOLEAN : LoadProbe(exists)
    \/ CloseTutorial
    \/ \E kind \in {"tracked", "untracked"} : UserEdit(kind)
    \/ \E p \in NavCalls, stepId \in NavTargets : NavStart(p, stepId)
    \/ \E p \in NavCalls, ok \in BOOLEAN : NavStatus(p, ok)
    \/ \E p \in NavCalls, choice \in PromptChoices : NavPrompt(p, choice)
    \/ \E p \in NavCalls, ok \in BOOLEAN : NavStash(p, ok)
    \/ \E p \in NavCalls, ok \in BOOLEAN : NavCheckout(p, ok)
    \/ \E p \in NavCalls : NavUpdate(p)
    \/ \E p \in NavCalls : NavRefresh(p)

Spec == Init /\ [][Next]_vars

----------------------------------------------------------------------------
(* Properties of the orchestrator *)

\* the call is between its dirty check and the completion of its checkout
InFlight(p) == nav[p].pc \in {"status", "prompt", "stash", "checkout"}

\* C1: when a navigateToStep(id) call returns successfully, not cancelled, while the
\* Tutorial it was called on is still the loaded one and its working tree the bound
\* one, HEAD of the bound working tree is the gitRef of step id and the Tutorial's
\* currentStepId is id.
NavigationReachesTarget ==
    [][\A p \in NavCalls :
          (/\ nav[p].pc = "refresh"
           /\ nav'[p].pc = "done"
           /\ nav'[p].result = Resolved
           /\ currentTutorial'.serial = nav[p].tutorial
           /\ gitRepoPath' = currentTutorial'.rootPath)
          => /\ HEAD'[gitRepoPath'] = nav[p].step.gitRef
             /\ currentTutorial'.currentStepId = nav[p].stepId]_vars

\* C2: a navigateToStep call opens the prompt only when its dirty check found
\* uncommitted changes; it begins a checkout only after a dirty check that found none,
\* after the discard answer, or after a stash that succeeded, and begins a stash only
\* after the stash answer; when the prompt is cancelled or dismissed the call returns
\* at once, leaving HEAD, the working trees, the stash stacks and currentStepId as
\* they were.
DirtyGate ==
    [][\A p \in NavCalls :
          /\ (nav'[p].pc = "prompt" /\ nav[p].pc # "prompt")
                => NavStatus(p, TRUE) /\ hasUncommittedChanges(nav[p].repo)
          /\ (nav'[p].pc = "stash" /\ nav[p].pc # "stash")
                => NavPrompt(p, "stash")
          /\ (nav'[p].pc = "checkout" /\ nav[p].pc # "checkout")
                => \/ NavStatus(p, TRUE) /\ ~hasUncommittedChanges(nav[p].repo)
                   \/ NavPrompt(p, "discard")
                   \/ NavStash(p, TRUE)
          /\ \A choice \in {"cancel", "dismissed"} :
                NavPrompt(p, choice)
                => /\ nav'[p].pc = "done"
                   /\ nav'[p].result = Cancelled
                   /\ UNCHANGED <<HEAD, wt, stashDepth, currentTutorial, stepEvents>>]_vars

\* a navigation cancelled at the prompt: the working tree of the open tutorial is
\* still dirty, nothing was stashed, no step was entered
CancelledAtPrompt ==
    /\ \E p \in NavCalls : nav[p].pc = "done" /\ nav[p].result = Cancelled
    /\ currentTutorial # NoTutorial
    /\ hasUncommittedChanges(currentTutorial.rootPath)
    /\ stashDepth[currentTutorial.rootPath] = 0
    /\ HEAD[currentTutorial.rootPath] = "r0"
    /\ currentTutorial.currentStepId = Null

\* C3: at most one navigateToStep call on a tutorial is, at any time, between its
\* dirty check and the completion of its checkout.
OneNavigationInFlight ==
    \A p, q \in NavCalls :
        (InFlight(p) /\ InFlight(q) /\ nav[p].tutorial = nav[q].tutorial) => p = q

\* C4: no step of a navigateToStep call up to the completion of its checkout, the
\* failure of its stash or of its checkout included, writes currentStepId or emits a
\* step-changed event: a call that fails there leaves both as they were.
FailedNavigationLeavesStep ==
    [][\A p \in NavCalls :
          (/\ nav'[p] # nav[p]
           /\ nav[p].pc \in {"idle", "done", "status", "prompt", "stash", "checkout"})
          => UNCHANGED <<currentTutorial, stepEvents>>]_vars

\* a navigation whose checkout failed, on a tutorial that is still at no step
CheckoutFailed ==
    /\ \E p \in NavCalls :
          nav[p].pc = "done" /\ nav[p].result = Rejected("GitError", "checkout", <<>>)
    /\ currentTutorial # NoTutorial
    /\ currentTutorial.currentStepId = Null
    /\ stepEvents = <<>>

\* C5: while a loadTutorial call is under way, and after it has failed, the Tutorial
\* of that call is neither currentTutorial (what getCurrentTutorial returns) nor in
\* any tutorial-loaded event.
FailedLoadNeverObservable ==
    (load.pc # "idle" /\ load.result # Resolved) =>
        /\ currentTutorial.serial # load.serial
        /\ \A i \in 1..Len(loadedEvents) : loadedEvents[i].serial # load.serial

\* a load that failed on its refs while the Tutorial of an earlier load stays open
LoadFailedOnRefs ==
    /\ load.pc = "done"
    /\ load.result.status = "rejected"
    /\ load.result.message = "invalid git refs"
    /\ currentTutorial # NoTutorial
    /\ Len(loadedEvents) = 1

\* the steps whose ref did not resolve, as validateGitRefs reports them
InvalidSteps(steps, probes) ==
    LET bad == SelectSeq([i \in 1..Len(steps) |-> i], LAMBDA i : ~probes[i])
    IN  [k \in 1..Len(bad) |-> <<steps[bad[k]].id, steps[bad[k]].gitRef>>]

\* C6: a loadTutorial call that succeeded probed the ref of every step and every
\* probe answered yes; a call whose probes did not all answer yes failed, after
\* probing every step, with a report that names exactly the steps whose ref did not
\* resolve.
EveryRefProbed ==
    load.pc = "done" =>
        LET allExist == \A i \in 1..Len(load.probes) : load.probes[i]
        IN  /\ load.result = Resolved
                => Len(load.steps) > 0 /\ Len(load.probes) = Len(load.steps) /\ allExist
            /\ (load.probes # <<>> /\ ~allExist)
                => /\ Len(load.probes) = Len(load.steps)
                   /\ load.result = Rejected("Error", "invalid git refs",
                                             InvalidSteps(load.steps, load.probes))

\* a load that failed with both of its steps named in the report
BothRefsReported ==
    /\ load.pc = "done"
    /\ load.result.status = "rejected"
    /\ Len(load.result.details) = 2
    /\ load.probes = <<FALSE, FALSE>>

\* C7: a navigateToStep call made with no tutorial loaded fails with
\* TutorialNotLoadedError, and one made with an id that is no step of the loaded
\* tutorial fails with StepNotFoundError; either way it invokes no dirty check, stash
\* or checkout (it ends at once) and leaves currentStepId and the working trees as
\* they were.
NavigationPreconditionErrors ==
    [][\A p \in NavCalls, stepId \in NavTargets :
          (/\ NavStart(p, stepId)
           /\ \/ currentTutorial = NoTutorial
              \/ FindStep(currentTutorial.steps, stepId) = NoStep)
          => /\ nav'[p].pc = "done"
             /\ nav'[p].result.status = "rejected"
             /\ nav'[p].result.name = IF currentTutorial = NoTutorial
                                      THEN "TutorialNotLoadedError"
                                      ELSE "StepNotFoundError"
             /\ UNCHANGED <<currentTutorial, gitVars>>]_vars

\* C20: every navigateToStep call whose checkout has completed goes on to emit
\* exactly one step-changed event, carrying the StepNode it was called for and
\* emitted with currentStepId set to that step; no other step of a call emits an
\* event, so the event comes only after the checkout, and a call that is
\* cancelled or fails emits none.
OneStepChangedPerCheckout ==
    [][\A p \in NavCalls :
          /\ (nav[p].pc = "update" /\ nav'[p] # nav[p])
                 => /\ stepEvents' = Append(stepEvents, [step |-> nav[p].step, call |-> p])
                    /\ currentTutorial' # NoTutorial
                    /\ currentTutorial'.currentStepId = nav[p].stepId
          /\ (nav[p].pc # "update" /\ nav'[p] # nav[p])
                 => \A k \in 1..Len(stepEvents') :
                        stepEvents'[k].call = p => k <= Len(stepEvents)
          /\ (nav'[p] # nav[p] /\ nav'[p].pc = "done"
                              /\ nav'[p].result.status # "resolved")
                 => stepEvents' = stepEvents]_vars

\* the current step the tutorial's progress record names, or null without a record
ProgressStep(cache, tutorial) ==
    IF tutorial.id \in DOMAIN cache THEN cache[tutorial.id].currentStepId ELSE Null
\* call p runs its continuation after the checkout and fires its event
Navigated(p) == nav[p].pc = "update" /\ nav'[p].pc = "refresh"

getCurrentStep(tutorial) ==
    IF tutorial = NoTutorial \/ tutorial.currentStepId \in {Null, ""} THEN NoStep
    ELSE FindStep(tutorial.steps, tutorial.currentStepId)

\* the call of loadTutorial returns its Tutorial in this step
LoadSucceeds == load.pc = "refs" /\ load'.pc = "done" /\ load'.result = Resolved

\* C22: when loadTutorial succeeds, the Tutorial it built from the source is the
\* current one in place of any earlier one, its currentStepId is none, one
\* tutorial-loaded event carrying it is emitted and getCurrentStep returns none;
\* no other step emits a tutorial-loaded event, and getCurrentStep returns
\* something only from the step on in which a navigateToStep call passes its
\* checkout and goes on to return successfully.
LoadReplacesTutorial ==
    [][/\ LoadSucceeds
          => /\ currentTutorial' # NoTutorial
             /\ currentTutorial'.rootPath = load.repoPath
             /\ currentTutorial'.id = generateTutorialId(load.repoPath)
             /\ currentTutorial'.steps = buildStepTree(load.steps)
             /\ currentTutorial'.currentStepId = Null
             /\ loadedEvents' = Append(loadedEvents, currentTutorial')
             /\ getCurrentStep(currentTutorial') = NoStep
       /\ loadedEvents' # loadedEvents => LoadSucceeds
       /\ (getCurrentStep(currentTutorial) = NoStep /\ getCurrentStep(currentTutorial') # NoStep)
          => \E p \in NavCalls : Navigated(p)]_vars

\* a second tutorial was loaded over one in which a navigation had succeeded: it
\* is the current one, it was announced once, and it has no current step
SecondTutorialLoaded ==
    /\ load.pc = "done" /\ load.result = Resolved
    /\ Len(loadedEvents) = 2
    /\ loadedEvents[2] = currentTutorial
    /\ loadedEvents[1].rootPath # currentTutorial.rootPath
    /\ Len(stepEvents) = 1
    /\ currentTutorial.currentStepId = Null
    /\ getCurrentStep(currentTutorial) = NoStep

\* closeTutorial runs in this step
Closes == currentTutorial # NoTutorial /\ currentTutorial' = NoTutorial

\* C23: closeTutorial releases the Tutorial and nothing else: getCurrentTutorial
\* and getCurrentStep return none afterwards, it makes no checkout or stash and
\* leaves HEAD, the working trees, the adapter's binding, the progress store and
\* the emitted events as they were; and a navigateToStep call made once the
\* tutorial is closed fails at once with TutorialNotLoadedError and changes
\* nothing either.
CloseReleasesOnlyTheTutorial ==
    [][/\ Closes
          => /\ getCurrentStep(currentTutorial') = NoStep
             /\ UNCHANGED <<gitRepoPath, gitVars, loadedEvents, stepEvents, diffRequest,
                            progressVars>>
       /\ \A p \in NavCalls, stepId \in NavTargets :
             (NavStart(p, stepId) /\ currentTutorial = NoTutorial /\ Len(loadedEvents) > 0)
                 => /\ nav'[p].pc = "done"
                    /\ nav'[p].result.status = "rejected"
                    /\ nav'[p].result.name = "TutorialNotLoadedError"
                    /\ UNCHANGED <<currentTutorial, gitVars>>]_vars

\* the call leaves the prompt with the discard answer, or its stash has completed:
\* its checkout starts
CheckoutStartsAfterChoice(p) ==
    /\ nav'[p].pc = "checkout"
    /\ \/ nav[p].pc = "prompt"
       \/ nav[p].pc = "stash"

\* C33: whenever a call of navigateToStep that found the working tree dirty goes
\* on to its checkout, after stash() has completed for the stash answer or at
\* once for the discard answer, the uncommitted modifications are gone from the
\* working tree the checkout runs in (plain `git checkout` removes none), so
\* that the checkout is not blocked and leaves no uncommitted change.
DirtyChoiceClearsWorkingTree ==
    [][\A p \in NavCalls :
          CheckoutStartsAfterChoice(p) => wt'[nav'[p].repo] = {}]_vars

\* C34: whenever getCurrentTutorial returns a Tutorial, the adapter is bound to
\* the rootPath of that Tutorial, also after a load of another source has
\* started or failed.
AdapterBoundToCurrentTutorial ==
    currentTutorial # NoTutorial => gitRepoPath = currentTutorial.rootPath

\* the current step of the tutorial is none or one of the tutorial's own steps
CurrentStepIsOwnStep ==
    currentTutorial # NoTutorial =>
        \/ currentTutorial.currentStepId = Null
        \/ \E i \in 1..Len(currentTutorial.steps) :
               currentTutorial.steps[i].id = currentTutorial.currentStepId
\* no call of navigateToStep has failed on the missing tutorial after its checkout
NoNavigationLostItsTutorial ==
    \A p \in NavCalls : nav[p].result.name # "TypeError"

\* C35: in every reachable state the currentStepId of the current Tutorial is
\* none or the id of one of its steps, also when loadTutorial or closeTutorial
\* ran while a navigateToStep call was suspended: no navigation writes its step
\* id into another tutorial or fails on a missing tutorial after its checkout.
NavigationKeepsToItsTutorial ==
    /\ CurrentStepIsOwnStep
    /\ NoNavigationLostItsTutorial

\* C37: whenever a Tutorial is loaded and no navigateToStep call and no
\* step-changed handler is under way, the currentStepId of the progress record
\* of the Tutorial's id (none without a record) equals the Tutorial's
\* currentStepId, also right after the Tutorial was loaded again over a record
\* kept from an earlier load.
ProgressRecordFollowsTutorial ==
    (currentTutorial # NoTutorial /\ \A p \in NavCalls : nav[p].pc \in {"idle", "done"})
        => ProgressStep(progressCache, currentTutorial) = currentTutorial.currentStepId

----------------------------------------------------------------------------
(* The progress store on its own, called by any client in any order *)

\* the step ids the store is called with
ProgressSteps == {"s1", "s2"}

\* ProgressTracker.initialize
Initialize ==
    /\ ~context
    /\ context' = TRUE
    /\ SetStore(loadFromStorage(Store))
    /\ queried' = NoQuery
    /\ UNCHANGED <<pureVars, managerVars, now>>

MarkStepCompleted(tutorialId, stepId) ==
    /\ SetStore(markStepCompleted(Store, tutorialId, stepId))
    /\ queried' = NoQuery
    /\ UNCHANGED <<pureVars, managerVars, context, now>>

SetCurrentStep(tutorialId, stepId) ==
    /\ SetStore(setCurrentStep(Store, tutorialId, stepId))
    /\ queried' = NoQuery
    /\ UNCHANGED <<pureVars, managerVars, context, now>>

ResetProgress(tutorialId) ==
    /\ SetStore(resetProgress(Store, tutorialId))
    /\ queried' = NoQuery
    /\ UNCHANGED <<pureVars, managerVars, context, now>>

DeleteProgress(tutorialId) ==
    /\ SetStore(deleteProgress(Store, tutorialId))
    /\ queried' = NoQuery
    /\ UNCHANGED <<pureVars, managerVars, context, now>>

\* getProgress registers the record if there is none; what it returns is the
\* record the cache then holds under the id
GetProgress(tutorialId) ==
    /\ SetStore(getProgress(Store, tutorialId))
    /\ queried' = NoQuery
    /\ UNCHANGED <<pureVars, managerVars, context, now>>

\* the JSON texts deserialize is called with: the empty object and what serialize
\* returns for the store as it is
JsonTexts == {serialize([Store EXCEPT !.cache = EmptyMap]), serialize(Store)}

Deserialize(json) ==
    /\ SetStore(deserialize(Store, json))
    /\ queried' = NoQuery
    /\ UNCHANGED <<pureVars, managerVars, context, now>>

\* getStepStatus registers the record it reads and returns the status
GetStepStatus(tutorialId, stepId) ==
    /\ SetStore(getProgress(Store, tutorialId))
    /\ queried' = [tutorialId |-> tutorialId, stepId |-> stepId,
                   status |-> getStepStatus(Store, tutorialId, stepId)]
    /\ UNCHANGED <<pureVars, managerVars, context, now>>

\* time passes
Tick ==
    /\ now < MaxTime
    /\ now' = now + 1
    /\ queried' = NoQuery
    /\ UNCHANGED <<pureVars, managerVars, progressCache, storage, context>>

\* what globalState holds when an earlier session saved progress
StoredEarlier ==
    [stored |-> TRUE,
     data |-> (generateTutorialId(LocalSource.rest) :>
                  [tutorialId |-> generateTutorialId(LocalSource.rest),
                   currentStepId |-> "s1", completedSteps |-> <<>>,
                   lastAccessTime |-> 0])]

ProgressInit ==
    /\ currentTutorial = NoTutorial
    /\ gitRepoPath = NoPath
    /\ HEAD = [p \in Paths |-> "r0"]
    /\ wt = [p \in Paths |-> {}]
    /\ stashDepth = [p \in Paths |-> 0]
    /\ loadedEvents = <<>>
    /\ stepEvents = <<>>
    /\ nav = [p \in NavCalls |-> IdleNav]
    /\ load = IdleLoad
    /\ calls = 0
    /\ diffRequest = NoDiff
    /\ progressCache = EmptyMap
    /\ storage = NothingStored
    /\ context = FALSE
    /\ now = 0
    /\ queried = NoQuery
    /\ input = NoInput
    /\ output = NoOutput

ProgressNext ==
    \/ Initialize
    \/ \E tutorialId \in TutorialIds, stepId \in ProgressSteps :
           MarkStepCompleted(tutorialId, stepId)
    \/ \E tutorialId \in TutorialIds, stepId \in ProgressSteps :
           SetCurrentStep(tutorialId, stepId)
    \/ \E tutorialId \in TutorialIds : ResetProgress(tutorialId)
    \/ \E tutorialId \in TutorialIds : DeleteProgress(tutorialId)
    \/ \E tutorialId \in TutorialIds, stepId \in ProgressSteps :
           GetStepStatus(tutorialId, stepId)
    \/ Tick

ProgressSpec == ProgressInit /\ [][ProgressNext]_vars

\* The store whose cache is also replaced from outside: by deserialize, and by an
\* initialize that finds what an earlier session saved. The clock stands still.
CacheInit ==
    /\ currentTutorial = NoTutorial
    /\ gitRepoPath = NoPath
    /\ HEAD = [p \in Paths |-> "r0"]
    /\ wt = [p \in Paths |-> {}]
    /\ stashDepth = [p \in Paths |-> 0]
    /\ loadedEvents = <<>>
    /\ stepEvents = <<>>
    /\ nav = [p \in NavCalls |-> IdleNav]
    /\ load = IdleLoad
    /\ calls = 0
    /\ diffRequest = NoDiff
    /\ progressCache = EmptyMap
    /\ storage \in {NothingStored, StoredEarlier}
    /\ context = FALSE
    /\ now = 0
    /\ queried = NoQuery
    /\ input = NoInput
    /\ output = NoOutput

CacheNext ==
    \/ Initialize
    \/ \E tutorialId \in TutorialIds : GetProgress(tutorialId)
    \/ \E tutorialId \in TutorialIds, stepId \in ProgressSteps :
           MarkStepCompleted(tutorialId, stepId)
    \/ \E tutorialId \in TutorialIds, stepId \in ProgressSteps :
           SetCurrentStep(tutorialId, stepId)
    \/ \E tutorialId \in TutorialIds : ResetProgress(tutorialId)
    \/ \E tutorialId \in TutorialIds : DeleteProgress(tutorialId)
    \/ \E json \in JsonTexts : Deserialize(json)

CacheSpec == CacheInit /\ [][CacheNext]_vars

\* The store as the extension's clients call it, over what an earlier session may
\* have saved. The clock stands still.
RecordsNext ==
    \/ Initialize
    \/ \E tutorialId \in TutorialIds, stepId \in ProgressSteps :
           MarkStepCompleted(tutorialId, stepId)
    \/ \E tutorialId \in TutorialIds, stepId \in ProgressSteps :
           SetCurrentStep(tutorialId, stepId)
    \/ \E tutorialId \in TutorialIds : ResetProgress(tutorialId)
    \/ \E tutorialId \in TutorialIds : DeleteProgress(tutorialId)
    \/ \E tutorialId \in TutorialIds, stepId \in ProgressSteps :
           GetStepStatus(tutorialId, stepId)

RecordsSpec == CacheInit /\ [][RecordsNext]_vars

----------------------------------------------------------------------------
(* Properties of the progress store *)

NoDuplicates(seq) == \A i, j \in 1..Len(seq) : seq[i] = seq[j] => i = j

\* C8: whenever getStepStatus(T, s) has just returned, what it returned is exactly one
\* of current, completed and pending, and it is the one the record of T gives:
\* current iff s is the record's currentStepId, otherwise completed iff s is among
\* its completedSteps, otherwise pending.
StepStatusAgreesWithRecord ==
    queried # NoQuery =>
        /\ queried.tutorialId \in DOMAIN progressCache
        /\ LET record == progressCache[queried.tutorialId]
               isCurrent == record.currentStepId = queried.stepId
               isCompleted == Includes(record.completedSteps, queried.stepId)
           IN  /\ queried.status \in {"current", "completed", "pending"}
               /\ (queried.status = "current") <=> isCurrent
               /\ (queried.status = "completed") <=> (~isCurrent /\ isCompleted)
               /\ (queried.status = "pending") <=> (~isCurrent /\ ~isCompleted)

\* getStepStatus answered "current" for a step that is also among the completed ones
StepStatusOfCurrentAndCompleted ==
    /\ queried # NoQuery
    /\ queried.status = "current"
    /\ Includes(progressCache[queried.tutorialId].completedSteps, queried.stepId)

\* C9: a setCurrentStep(T, s) call made when T's record has a current step a other
\* than s makes s the current step and leaves a among the completed steps, so that
\* getStepStatus then answers completed for a and current for s.
SetCurrentStepCompletesPrevious ==
    [][\A tutorialId \in TutorialIds, stepId \in ProgressSteps :
          (/\ SetCurrentStep(tutorialId, stepId)
           /\ tutorialId \in DOMAIN progressCache
           /\ progressCache[tutorialId].currentStepId \notin {Null, stepId})
          => LET a == progressCache[tutorialId].currentStepId
                 after == [cache |-> progressCache', storage |-> storage']
             IN  /\ progressCache'[tutorialId].currentStepId = stepId
                 /\ Includes(progressCache'[tutorialId].completedSteps, a)
                 /\ getStepStatus(after, tutorialId, a) = "completed"
                 /\ getStepStatus(after, tutorialId, stepId) = "current"]_vars

\* a record whose current step is s2 and whose only completed step is s1, the step
\* that was current before
PreviousStepCompleted ==
    \E tutorialId \in DOMAIN progressCache :
        /\ progressCache[tutorialId].currentStepId = "s2"
        /\ progressCache[tutorialId].completedSteps = <<"s1">>
        /\ getStepStatus(Store, tutorialId, "s1") = "completed"

\* C10: no call to the progress store leaves a step id twice in a record's
\* completedSteps, and a markStepCompleted(T, s) call made when s is already among
\* T's completed steps leaves completedSteps as it was.
MarkStepCompletedIdempotent ==
    [][/\ \A tutorialId \in DOMAIN progressCache' :
             NoDuplicates(progressCache'[tutorialId].completedSteps)
       /\ \A tutorialId \in TutorialIds, stepId \in ProgressSteps :
             (/\ MarkStepCompleted(tutorialId, stepId)
              /\ tutorialId \in DOMAIN progressCache
              /\ Includes(progressCache[tutorialId].completedSteps, stepId))
             => progressCache'[tutorialId].completedSteps
                    = progressCache[tutorialId].completedSteps]_vars

\* a new ProgressTracker()
FreshStore == [cache |-> EmptyMap, storage |-> NothingStored]

\* the two mappings have the same tutorial ids and, for each, the same current step
\* and the same completed steps
SameProgress(a, b) ==
    /\ DOMAIN a = DOMAIN b
    /\ \A k \in DOMAIN a :
          /\ a[k].currentStepId = b[k].currentStepId
          /\ a[k].completedSteps = b[k].completedSteps

MutatingCall ==
    \E tutorialId \in TutorialIds :
        \/ \E stepId \in ProgressSteps :
              /\ MarkStepCompleted(tutorialId, stepId)
              /\ ~Includes(getProgress(Store, tutorialId).cache[tutorialId].completedSteps,
                           stepId)
        \/ \E stepId \in ProgressSteps : SetCurrentStep(tutorialId, stepId)
        \/ ResetProgress(tutorialId)
        \/ DeleteProgress(tutorialId)

\* C12: on an initialized store, right after every call that changes the mapping the
\* value held in globalState equals the in-memory mapping, and a new store initialized
\* from that storage holds the same tutorial ids with the same currentStepId and
\* completedSteps.
StorageMirrorsCache ==
    [][(context /\ MutatingCall)
          => /\ storage'.stored
             /\ storage'.data = progressCache'
             /\ SameProgress(
                    loadFromStorage([cache |-> EmptyMap, storage |-> storage']).cache,
                    progressCache')]_vars

\* an initialized store whose storage holds what the cache holds: two records, a
\* current step and a completed one among them
StoredProgress ==
    /\ context
    /\ storage.stored
    /\ storage.data = progressCache
    /\ DOMAIN progressCache = TutorialIds
    /\ \E k \in TutorialIds :
          /\ progressCache[k].currentStepId = "s2"
          /\ progressCache[k].completedSteps = <<"s1">>

\* a record with both steps completed, once each, last written before the clock
\* moved on: a markStepCompleted for either step finds it there and writes nothing
BothStepsCompletedOnce ==
    \E tutorialId \in DOMAIN progressCache :
        /\ Len(progressCache[tutorialId].completedSteps) = 2
        /\ NoDuplicates(progressCache[tutorialId].completedSteps)
        /\ progressCache[tutorialId].lastAccessTime < now

IsPrefix(a, b) == Len(a) <= Len(b) /\ \A i \in 1..Len(a) : a[i] = b[i]

\* the record registered under the id is still registered after the step and shows
\* every mutation made so far: the steps completed before are still there, in
\* their order, and a current step once set is not none again
RecordKept(tutorialId) ==
    /\ tutorialId \in DOMAIN progressCache'
    /\ progressCache'[tutorialId].tutorialId = tutorialId
    /\ IsPrefix(progressCache[tutorialId].completedSteps,
                progressCache'[tutorialId].completedSteps)
    /\ progressCache[tutorialId].currentStepId # Null
           => progressCache'[tutorialId].currentStepId # Null

\* getProgress(T) on an unknown id registers an empty record, and on a known id
\* returns the registered record as it is
GetProgressRegistersOnce(tutorialId) ==
    GetProgress(tutorialId)
        => IF tutorialId \in DOMAIN progressCache
           THEN progressCache' = progressCache
           ELSE /\ DOMAIN progressCache' = DOMAIN progressCache \cup {tutorialId}
                /\ progressCache'[tutorialId].tutorialId = tutorialId
                /\ progressCache'[tutorialId].currentStepId = Null
                /\ progressCache'[tutorialId].completedSteps = <<>>

\* C24 as stated: getProgress(T) for an unknown id registers and returns a record
\* with no current step and no completed steps, and whatever is called afterwards,
\* save resetProgress(T) and deleteProgress(T), the record registered under T stays
\* that record, with the mutations made to it, and getProgress(T) returns it.
RecordKeptUntilResetOrDelete ==
    [][\A tutorialId \in TutorialIds :
          /\ GetProgressRegistersOnce(tutorialId)
          /\ (/\ tutorialId \in DOMAIN progressCache
              /\ ~ResetProgress(tutorialId)
              /\ ~DeleteProgress(tutorialId))
             => RecordKept(tutorialId)]_vars

\* the step replaces the whole cache: a deserialize, or an initialize that finds
\* stored progress
CacheReplaced ==
    \/ \E json \in JsonTexts : Deserialize(json)
    \/ Initialize /\ storage.stored

\* C24, with the calls that replace the whole cache excepted as well: the record
\* registered under T stays that record, mutations included, and getProgress(T)
\* returns it, until resetProgress(T), deleteProgress(T), deserialize or an
\* initialize that finds stored progress.
RecordKeptUntilReplaced ==
    [][\A tutorialId \in TutorialIds :
          /\ GetProgressRegistersOnce(tutorialId)
          /\ (/\ tutorialId \in DOMAIN progressCache
              /\ ~ResetProgress(tutorialId)
              /\ ~DeleteProgress(tutorialId)
              /\ ~CacheReplaced)
             => RecordKept(tutorialId)]_vars

\* on an initialized store one record has a current and a completed step, and the
\* other was registered empty by getProgress and not written to storage yet
RegisteredRecordMutated ==
    /\ context
    /\ DOMAIN progressCache = TutorialIds
    /\ \E a, b \in TutorialIds :
          /\ progressCache[a].currentStepId = "s2"
          /\ progressCache[a].completedSteps = <<"s1">>
          /\ b \notin DOMAIN storage.data
          /\ progressCache[b].currentStepId = Null
          /\ progressCache[b].completedSteps = <<>>

\* C25: right after resetProgress(T) the record of T has no current step and no
\* completed steps, so that getStepStatus(T, s) answers pending for every step s.
ResetLeavesAllPending ==
    [][\A tutorialId \in TutorialIds :
          ResetProgress(tutorialId)
              => /\ tutorialId \in DOMAIN progressCache'
                 /\ progressCache'[tutorialId].currentStepId = Null
                 /\ progressCache'[tutorialId].completedSteps = <<>>
                 /\ \A stepId \in ProgressSteps :
                        getStepStatus([cache |-> progressCache', storage |-> storage'],
                                      tutorialId, stepId) = "pending"]_vars

\* the only record is empty, it was written to storage after the clock had moved
\* on, and getStepStatus has just answered pending for one of its steps
PendingAfterReset ==
    /\ context
    /\ queried # NoQuery
    /\ queried.status = "pending"
    /\ DOMAIN progressCache = {queried.tutorialId}
    /\ progressCache[queried.tutorialId].currentStepId = Null
    /\ progressCache[queried.tutorialId].completedSteps = <<>>
    /\ progressCache[queried.tutorialId].lastAccessTime > 0
    /\ storage.stored
    /\ storage.data = progressCache

\* the step is a markStepCompleted(T, s) call that finds s among T's completed steps
MarksCompletedAgain(tutorialId, stepId) ==
    /\ MarkStepCompleted(tutorialId, stepId)
    /\ tutorialId \in DOMAIN progressCache
    /\ Includes(progressCache[tutorialId].completedSteps, stepId)

\* C26 as stated: a markStepCompleted(T, s) call for a step s that is already
\* completed leaves the completed steps as they were and yet sets the record's
\* lastAccessTime to the time of the call.
CompletedAgainRefreshesAccessTime ==
    [][\A tutorialId \in TutorialIds, stepId \in ProgressSteps :
          MarksCompletedAgain(tutorialId, stepId)
              => /\ progressCache'[tutorialId].completedSteps
                        = progressCache[tutorialId].completedSteps
                 /\ progressCache'[tutorialId].lastAccessTime = now]_vars

\* C26, with the refresh tied to the change: a markStepCompleted(T, s) call for a
\* step s that is already completed leaves the whole record as it was,
\* lastAccessTime included, and writes nothing to storage; a call that adds s sets
\* lastAccessTime to the time of the call.
CompletedAgainLeavesAccessTime ==
    [][\A tutorialId \in TutorialIds, stepId \in ProgressSteps :
          /\ MarksCompletedAgain(tutorialId, stepId)
                 => UNCHANGED <<progressCache, storage>>
          /\ (MarkStepCompleted(tutorialId, stepId)
                 /\ ~MarksCompletedAgain(tutorialId, stepId))
                 => /\ Includes(progressCache'[tutorialId].completedSteps, stepId)
                    /\ progressCache'[tutorialId].lastAccessTime = now]_vars

\* a record with one completed step, last written before the clock moved on and
\* stored that way: marking that step again finds the record older than the call
CompletedStepOlderThanNow ==
    /\ context
    /\ storage.stored
    /\ \E tutorialId \in DOMAIN progressCache :
          /\ progressCache[tutorialId].completedSteps = <<"s1">>
          /\ progressCache[tutorialId].currentStepId = Null
          /\ progressCache[tutorialId].lastAccessTime < now
          /\ tutorialId \in DOMAIN storage.data
          /\ storage.data[tutorialId] = progressCache[tutorialId]

\* every record registered under another id than tutorialId stays registered,
\* with its current step and its completed steps, and none is added
OtherRecordsKept(tutorialId) ==
    \A other \in TutorialIds \ {tutorialId} :
        /\ other \in DOMAIN progressCache' <=> other \in DOMAIN progressCache
        /\ other \in DOMAIN progressCache
               => /\ progressCache'[other].currentStepId = progressCache[other].currentStepId
                  /\ progressCache'[other].completedSteps = progressCache[other].completedSteps

\* C38: each call of markStepCompleted, setCurrentStep, resetProgress,
\* deleteProgress and getStepStatus for a tutorial id leaves currentStepId and
\* completedSteps of every record of another tutorial id as they were.
CallsLeaveOtherTutorialsAlone ==
    [][\A tutorialId \in TutorialIds, stepId \in ProgressSteps :
          (\/ MarkStepCompleted(tutorialId, stepId)
           \/ SetCurrentStep(tutorialId, stepId)
           \/ ResetProgress(tutorialId)
           \/ DeleteProgress(tutorialId)
           \/ GetStepStatus(tutorialId, stepId))
          => OtherRecordsKept(tutorialId)]_vars

\* one tutorial was asked about and has nothing but a fresh record, while the
\* record of the other holds a current and a completed step
OtherRecordBesideFreshOne ==
    \E tutorialId \in TutorialIds, other \in TutorialIds :
        /\ other # tutorialId
        /\ queried.tutorialId = tutorialId
        /\ tutorialId \in DOMAIN progressCache
        /\ progressCache[tutorialId].completedSteps = <<>>
        /\ other \in DOMAIN progressCache
        /\ progressCache[other].currentStepId = "s2"
        /\ progressCache[other].completedSteps = <<"s1">>

\* the step id is among the completed steps of the record of the tutorial
Completed(cache, tutorialId, stepId) ==
    /\ tutorialId \in DOMAIN cache
    /\ Includes(cache[tutorialId].completedSteps, stepId)

\* setCurrentStep on a completed step leaves it completed and makes it current
CompletedBecomesCurrent(tutorialId, stepId) ==
    SetCurrentStep(tutorialId, stepId)
        => /\ Completed(progressCache', tutorialId, stepId)
           /\ progressCache'[tutorialId].currentStepId = stepId
           /\ getStepStatus([cache |-> progressCache', storage |-> storage'],
                            tutorialId, stepId) = "current"

\* C40 as stated: a step id that is in completedSteps stays there through every
\* later call, markStepCompleted and setCurrentStep included, and is removed only
\* by resetProgress and deleteProgress; setCurrentStep to an already completed
\* step keeps it in completedSteps while its status becomes current.
CompletedUntilResetOrDelete ==
    [][\A tutorialId \in TutorialIds, stepId \in ProgressSteps :
          Completed(progressCache, tutorialId, stepId)
              => /\ (~ResetProgress(tutorialId) /\ ~DeleteProgress(tutorialId))
                        => Completed(progressCache', tutorialId, stepId)
                 /\ CompletedBecomesCurrent(tutorialId, stepId)]_vars

\* C40, with the calls that replace the whole cache named as well: a step id
\* that is in completedSteps stays there through every later markStepCompleted
\* and setCurrentStep call and is removed only by resetProgress, deleteProgress,
\* deserialize or an initialize that finds stored progress; setCurrentStep to an
\* already completed step keeps it in completedSteps while its status becomes
\* current.
CompletedUntilRemovedOrReplaced ==
    [][\A tutorialId \in TutorialIds, stepId \in ProgressSteps :
          Completed(progressCache, tutorialId, stepId)
              => /\ (/\ ~ResetProgress(tutorialId)
                     /\ ~DeleteProgress(tutorialId)
                     /\ ~CacheReplaced)
                        => Completed(progressCache', tutorialId, stepId)
                 /\ CompletedBecomesCurrent(tutorialId, stepId)]_vars

\* s1 was completed by the move to s2 and is current again, still completed
CurrentStepStillCompleted ==
    \E tutorialId \in DOMAIN progressCache :
        /\ progressCache[tutorialId].currentStepId = "s1"
        /\ progressCache[tutorialId].completedSteps = <<"s1", "s2">>

----------------------------------------------------------------------------
(* Config validator (ConfigParser.validate) *)

\* steps a config document may declare
MaxSteps == 2

\* the values validate may find in a field, by what typeof and ! say about them
Undefined == [t |-> "undefined", v |-> ""]
Str(s) == [t |-> "string", v |-> s]
NotAString == [t |-> "number", v |-> "7"]

\* !x is false
Truthy(x) == x.t \notin {"undefined", "null"} /\ ~(x.t = "string" /\ x.v = "")
\* !x || typeof x !== 'string'
NoString(x) == ~Truthy(x) \/ x.t # "string"
\* x !== undefined && typeof x !== 'string'
NoOptionalString(x) == x.t # "undefined" /\ x.t # "string"

\* an entry of the steps array: an object with its fields, null, or a primitive
\* (reading a field of a primitive gives undefined, of null throws)
StepObject(id, title, parentId) ==
    [t |-> "object", id |-> id, title |-> title, gitRef |-> Str("r1"),
     explanation |-> Str("e"), parentId |-> parentId, description |-> Undefined]
NullStep ==
    [t |-> "null", id |-> Undefined, title |-> Undefined, gitRef |-> Undefined,
     explanation |-> Undefined, parentId |-> Undefined, description |-> Undefined]
PrimitiveStep == [NullStep EXCEPT !.t = "number"]

\* the value of the steps field
NoSteps == [t |-> "undefined", items |-> <<>>]
StepsNotArray == [t |-> "string", items |-> <<>>]
StepsArray(items) == [t |-> "array", items |-> items]

\* the value handed to validate
NullConfig ==
    [t |-> "null", name |-> Undefined, description |-> Undefined,
     version |-> Undefined, steps |-> NoSteps]
ConfigObject(name, description, version, steps) ==
    [t |-> "object", name |-> name, description |-> description,
     version |-> version, steps |-> steps]

\* a ValidationError: the path by its segments, the message by its words
Error(path, message) == [path |-> path, message |-> message]
\* the index as the template literal writes it
IndexText(index) == <<"0", "1", "2", "3", "4", "5", "6", "7", "8", "9">>[index + 1]
StepPath(index) == <<"steps", IndexText(index)>>
FieldPath(index, field) == <<"steps", IndexText(index), field>>
Required(field) == <<field, "is", "required", "and", "must", "be", "a", "string">>
IfProvided(field) == <<field, "must", "be", "a", "string", "if", "provided">>

\* the first forEach of validateSteps on the entry at index (from 0): the errors
\* it pushes and the ids it leaves registered
CheckStep(step, index, stepIds) ==
    IF step.t # "object"
    THEN [errors |-> <<Error(StepPath(index), <<"step", "must", "be", "an", "object">>)>>,
          stepIds |-> stepIds]
    ELSE [errors |->
              (IF NoString(step.id)
               THEN <<Error(FieldPath(index, "id"), Required("id"))>>
               ELSE IF step.id.v \in stepIds
                    THEN <<Error(FieldPath(index, "id"),
                                 <<"duplicate", "step", "id:", step.id.v>>)>>
                    ELSE <<>>)
              \o (IF NoString(step.title)
                  THEN <<Error(FieldPath(index, "title"), Required("title"))>>
                  ELSE <<>>)
              \o (IF NoString(step.gitRef)
                  THEN <<Error(FieldPath(index, "gitRef"), Required("gitRef"))>>
                  ELSE <<>>)
              \o (IF NoString(step.explanation)
                  THEN <<Error(FieldPath(index, "explanation"), Required("explanation"))>>
                  ELSE <<>>)
              \o (IF NoOptionalString(step.parentId)
                  THEN <<Error(FieldPath(index, "parentId"), IfProvided("parentId"))>>
                  ELSE <<>>)
              \o (IF NoOptionalString(step.description)
                  THEN <<Error(FieldPath(index, "description"), IfProvided("description"))>>
                  ELSE <<>>),
          stepIds |-> IF NoString(step.id) THEN stepIds ELSE stepIds \cup {step.id.v}]

RECURSIVE FirstPass(_, _, _)
FirstPass(steps, i, stepIds) ==
    IF i > Len(steps)
    THEN [errors |-> <<>>, stepIds |-> stepIds]
    ELSE LET this == CheckStep(steps[i], i - 1, stepIds)
             rest == FirstPass(steps, i + 1, this.stepIds)
         IN  [errors |-> this.errors \o rest.errors, stepIds |-> rest.stepIds]

\* a single-pass check: a parentId is looked up among the ids of earlier entries
RECURSIVE SecondPass_EarlierOnly(_, _, _)
SecondPass_EarlierOnly(steps, i, stepIds) ==
    IF i > Len(steps)
    THEN [threw |-> FALSE, errors |-> <<>>]
    ELSE IF steps[i].t \in {"null", "undefined"}
         THEN [threw |-> TRUE, errors |-> <<>>]
         ELSE LET parentId == steps[i].parentId
                  earlier == {steps[j].id.v : j \in 1..(i - 1)} \cap stepIds
                  rest == SecondPass_EarlierOnly(steps, i + 1, stepIds)
              IN  [threw |-> rest.threw,
                   errors |->
                       (IF /\ Truthy(parentId)
                           /\ parentId.t = "string"
                           /\ parentId.v \notin earlier
                        THEN <<Error(FieldPath(i - 1, "parentId"),
                                     <<"parentId", "references", "non-existent",
                                       "step:", parentId.v>>)>>
                        ELSE <<>>)
                       \o rest.errors]

\* the second forEach of validateSteps: it reads step.parentId with no check that
\* step is an object, which throws a TypeError on a null entry and ends the loop
RECURSIVE SecondPass(_, _, _)
SecondPass(steps, i, stepIds) ==
    IF i > Len(steps)
    THEN [threw |-> FALSE, errors |-> <<>>]
    ELSE IF steps[i].t \in {"null", "undefined"}
         THEN [threw |-> TRUE, errors |-> <<>>]
         ELSE LET parentId == steps[i].parentId
                  rest == SecondPass(steps, i + 1, stepIds)
              IN  [threw |-> rest.threw,
                   errors |->
                       (IF /\ Truthy(parentId)
                           /\ parentId.t = "string"
                           /\ parentId.v \notin stepIds
                        THEN <<Error(FieldPath(i - 1, "parentId"),
                                     <<"parentId", "references", "non-existent",
                                       "step:", parentId.v>>)>>
                        ELSE <<>>)
                       \o rest.errors]

validateSteps(steps) ==
    LET first == FirstPass(steps, 1, {})
        second == SecondPass(steps, 1, first.stepIds)
    IN  [threw |-> second.threw, errors |-> first.errors \o second.errors]

\* what a validate call gives: a ValidationResult, or a throw
Returned(errors) ==
    [pending |-> FALSE, threw |-> FALSE, valid |-> errors = <<>>, errors |-> errors]
Threw == [pending |-> FALSE, threw |-> TRUE, valid |-> FALSE, errors |-> <<>>]

validate(config) ==
    IF config.t # "object"
    THEN Returned(<<Error(<<"root">>, <<"Config", "must", "be", "an", "object">>)>>)
    ELSE LET fields ==
                 (IF NoString(config.name)
                  THEN <<Error(<<"name">>, Required("name"))>>
                  ELSE <<>>)
                 \o (IF NoString(config.description)
                     THEN <<Error(<<"description">>, Required("description"))>>
                     ELSE <<>>)
                 \o (IF NoString(config.version)
                     THEN <<Error(<<"version">>, Required("version"))>>
                     ELSE <<>>)
         IN  IF config.steps.t # "array"
             THEN Returned(Append(fields,
                      Error(<<"steps">>, <<"steps", "is", "required", "and", "must",
                                           "be", "an", "array">>)))
             ELSE IF Len(config.steps.items) = 0
                  THEN Returned(Append(fields,
                           Error(<<"steps">>, <<"steps", "array", "must", "not",
                                                "be", "empty">>)))
                  ELSE LET stepErrors == validateSteps(config.steps.items)
                       IN  IF stepErrors.threw
                           THEN Threw
                           ELSE Returned(fields \o stepErrors.errors)

----------------------------------------------------------------------------
(* The validator on its own, called on any parsed document *)

IdValues == {Undefined, Str("a"), Str("b")}
TitleValues == {Undefined, Str("t")}
ParentIdValues == {Undefined, Str(""), Str("a"), Str("b"), NotAString}
StepValues ==
    {NullStep, PrimitiveStep}
        \cup {StepObject(id, title, parentId) :
                 id \in IdValues, title \in TitleValues, parentId \in ParentIdValues}
StepLists == UNION {[1..n -> StepValues] : n \in 0..MaxSteps}
StepsValues == {NoSteps, StepsNotArray} \cup {StepsArray(items) : items \in StepLists}
RawConfigs ==
    {NullConfig}
        \cup {ConfigObject(name, description, Str("1"), steps) :
                 name \in {Undefined, Str(""), Str("T")},
                 description \in {Undefined, Str("d")},
                 steps \in StepsValues}

\* nothing loaded, nothing stored, no call in flight: the rest of the extension
\* while a pure function is looked at
Untouched ==
    /\ currentTutorial = NoTutorial
    /\ gitRepoPath = NoPath
    /\ HEAD = [p \in Paths |-> "r0"]
    /\ wt = [p \in Paths |-> {}]
    /\ stashDepth = [p \in Paths |-> 0]
    /\ loadedEvents = <<>>
    /\ stepEvents = <<>>
    /\ nav = [p \in NavCalls |-> IdleNav]
    /\ load = IdleLoad
    /\ calls = 0
    /\ diffRequest = NoDiff
    /\ progressCache = EmptyMap
    /\ storage = NothingStored
    /\ context = FALSE
    /\ now = 0
    /\ queried = NoQuery

Validate ==
    /\ output.pending
    /\ output' = validate(input)
    /\ UNCHANGED <<input, managerVars, progressVars>>

ValidateInit ==
    /\ Untouched
    /\ input \in RawConfigs
    /\ output = NoOutput

ValidateNext == Validate

ValidateSpec == ValidateInit /\ [][ValidateNext]_vars

----------------------------------------------------------------------------
(* Properties of the validator *)

\* words occurs in message, as consecutive words
Contains(message, words) ==
    \E i \in 1..(Len(message) - Len(words) + 1) :
        SubSeq(message, i, i + Len(words) - 1) = words

\* what a document declares: an empty string counts as not given, for required
\* and optional fields alike
Declares(x) == x.t = "string" /\ x.v # ""
Items == input.steps.items
DeclaredIds == {Items[i].id.v : i \in {j \in 1..Len(Items) : Declares(Items[j].id)}}
MissingName == input.t = "object" /\ input.name.t = "undefined"
MissingSteps == input.t = "object" /\ input.steps.t = "undefined"
EmptySteps == input.t = "object" /\ input.steps.t = "array" /\ Items = <<>>
DuplicatedIds ==
    {id \in DeclaredIds :
        \E i, j \in 1..Len(Items) :
            i < j /\ Items[i].id = Str(id) /\ Items[j].id = Str(id)}
DanglingParentIds ==
    {Items[i].parentId.v :
        i \in {j \in 1..Len(Items) :
                  /\ Declares(Items[j].parentId)
                  /\ Items[j].parentId.v \notin DeclaredIds}}
RejectedWith(identifies(_)) ==
    /\ ~output.threw
    /\ ~output.valid
    /\ \E k \in 1..Len(output.errors) : identifies(output.errors[k])

\* C13: whenever validate has been applied to an input with a missing name,
\* missing steps, an empty steps array, two steps with the same id or a parentId
\* equal to no declared step id, it has returned valid = false with an error that
\* identifies the violated field: path "name"; path "steps"; path "steps" with a
\* message containing "must not be empty"; a message containing "duplicate" and
\* the id; a message naming the missing target.
InvalidRejected ==
    ~output.pending =>
        /\ MissingName => RejectedWith(LAMBDA e : e.path = <<"name">>)
        /\ MissingSteps => RejectedWith(LAMBDA e : e.path = <<"steps">>)
        /\ EmptySteps =>
               RejectedWith(LAMBDA e : /\ e.path = <<"steps">>
                                     /\ Contains(e.message, <<"must", "not", "be", "empty">>))
        /\ input.t = "object" =>
               \A id \in DuplicatedIds :
                   RejectedWith(LAMBDA e : /\ Contains(e.message, <<"duplicate">>)
                                         /\ Contains(e.message, <<id>>))
        /\ input.t = "object" =>
               \A target \in DanglingParentIds :
                   RejectedWith(LAMBDA e : /\ e.path[Len(e.path)] = "parentId"
                                         /\ Contains(e.message, <<target>>))

\* the six rules of the config model, on the document as declared
RootIsObject == input.t = "object"
TopLevelStrings ==
    Declares(input.name) /\ Declares(input.description) /\ Declares(input.version)
StepsNonEmpty == input.steps.t = "array" /\ Items # <<>>
StepFields ==
    \A i \in 1..Len(Items) :
        /\ Items[i].t = "object"
        /\ Declares(Items[i].id) /\ Declares(Items[i].title)
        /\ Declares(Items[i].gitRef) /\ Declares(Items[i].explanation)
        /\ Items[i].parentId.t \in {"undefined", "string"}
        /\ Items[i].description.t \in {"undefined", "string"}
IdsDistinct == \A i, j \in 1..Len(Items) : i # j => Items[i].id # Items[j].id
ParentsDeclared ==
    \A i \in 1..Len(Items) :
        Declares(Items[i].parentId)
            => \E j \in 1..Len(Items) : Items[j].id = Items[i].parentId
SixRules ==
    /\ RootIsObject
    /\ TopLevelStrings
    /\ StepsNonEmpty
    /\ StepFields
    /\ IdsDistinct
    /\ ParentsDeclared
Accepted == ~output.pending /\ ~output.threw /\ output.valid

AttachedToStep(e) == Len(e.path) >= 2
StepIndex(e) == CHOOSE index \in 0..9 : IndexText(index) = e.path[2]
HasError(path) == \E k \in 1..Len(output.errors) : output.errors[k].path = path

\* C15: whenever validate has returned, it has collected the errors of every
\* violated field rather than the first only (a missing name, a steps field that
\* is no array, and every step's missing id and title are all reported), and in
\* the returned sequence the errors of the top-level fields come first and every
\* error attached to an earlier step precedes every error attached to a later
\* step.
ErrorsInDocumentOrder ==
    (~output.pending /\ ~output.threw /\ input.t = "object") =>
        /\ NoString(input.name) => HasError(<<"name">>)
        /\ input.steps.t # "array" => HasError(<<"steps">>)
        /\ \A i \in 1..Len(Items) :
               Items[i].t = "object" =>
                   /\ NoString(Items[i].id) => HasError(FieldPath(i - 1, "id"))
                   /\ NoString(Items[i].title) => HasError(FieldPath(i - 1, "title"))
        /\ \A k, l \in 1..Len(output.errors) :
               LET a == output.errors[k]
                   b == output.errors[l]
               IN  /\ (~AttachedToStep(a) /\ AttachedToStep(b)) => k < l
                   /\ (/\ AttachedToStep(a)
                       /\ AttachedToStep(b)
                       /\ StepIndex(a) < StepIndex(b)) => k < l

----------------------------------------------------------------------------
(* The graph builder on its own (ConfigParser.buildStepTree) *)

\* configs a step list may hold
MaxConfigs == 3

\* ids and parentIds as a StepConfig[] may carry them, the empty string included
ConfigIds == {""} \cup StepIds
ConfigParentIds == {Null, ""} \cup StepIds
ConfigLists ==
    UNION {[1..n -> {StepConfig(id, "r1", parentId) :
                        id \in ConfigIds, parentId \in ConfigParentIds}] :
              n \in 0..MaxConfigs}

BuildStepTree ==
    /\ output.pending
    /\ output' = [pending |-> FALSE, threw |-> FALSE, nodes |-> buildStepTree(input)]
    /\ UNCHANGED <<input, managerVars, progressVars>>

TreeInit ==
    /\ Untouched
    /\ input \in ConfigLists
    /\ output = NoOutput

TreeNext == BuildStepTree

TreeSpec == TreeInit /\ [][TreeNext]_vars

----------------------------------------------------------------------------
(* Properties of the graph builder *)

DistinctIds(configs) ==
    \A i, j \in 1..Len(configs) : i # j => configs[i].id # configs[j].id
\* each parentId is absent or the id of a step of the list
ParentsInList(configs) ==
    \A i \in 1..Len(configs) :
        \/ configs[i].parentId = Null
        \/ \E j \in 1..Len(configs) : configs[j].id = configs[i].parentId
Occurrences(seq, x) == Cardinality({k \in 1..Len(seq) : seq[k] = x})

\* C16: whenever buildStepTree has been applied to a list with pairwise distinct
\* ids in which each parentId is absent or the id of a step of the list, the
\* nodes it returned are such that c is in p.children if and only if c.parentId
\* = p.id, each child id occurs exactly once in its parent's children, and every
\* non-null parentId is the id of a returned node.
ChildrenInvertParents ==
    (~output.pending /\ DistinctIds(input) /\ ParentsInList(input)) =>
        LET nodes == output.nodes
        IN  /\ \A p, c \in 1..Len(nodes) :
                   /\ Occurrences(nodes[p].children, nodes[c].id) > 0
                          <=> nodes[c].parentId = nodes[p].id
                   /\ Occurrences(nodes[p].children, nodes[c].id) <= 1
            /\ \A p \in 1..Len(nodes) :
                   \A k \in 1..Len(nodes[p].children) :
                       \E c \in 1..Len(nodes) : nodes[c].id = nodes[p].children[k]
            /\ \A c \in 1..Len(nodes) :
                   nodes[c].parentId # Null
                       => \E p \in 1..Len(nodes) : nodes[p].id = nodes[c].parentId

\* a branching tree has been built: one root with the two other steps as children
BranchingTreeBuilt ==
    /\ ~output.pending
    /\ DistinctIds(input)
    /\ Len(output.nodes) = 3
    /\ \E p \in 1..3 :
          /\ output.nodes[p].parentId = Null
          /\ Len(output.nodes[p].children) = 2

\* the ids of the nodes whose parentId is id, in the order of the node list
ChildIds(nodes, id) ==
    LET children == SelectSeq(nodes, LAMBDA n : n.parentId = id)
    IN  [k \in 1..Len(children) |-> children[k].id]
\* node i is the node of config i: its id, and its parentId or null for none
OneNodePerConfig ==
    /\ Len(output.nodes) = Len(input)
    /\ \A i \in 1..Len(input) :
           /\ output.nodes[i].id = input[i].id
           /\ output.nodes[i].parentId =
                  (IF input[i].parentId \in {Null, ""} THEN Null ELSE input[i].parentId)
           /\ output.nodes[i].children = ChildIds(output.nodes, input[i].id)

\* C17 as stated: whenever buildStepTree has returned, it has returned exactly
\* one node per input config, in input order, each with the ids of its children
\* in the order those children are declared.
NodePerConfigInOrder ==
    ~output.pending => OneNodePerConfig

\* C17, for lists with pairwise distinct ids: whenever buildStepTree has
\* returned for such a list, it has returned exactly one node per input config,
\* in input order, each with the ids of its children in the order those children
\* are declared.
NodePerDistinctConfigInOrder ==
    (~output.pending /\ DistinctIds(input)) => OneNodePerConfig

\* a parent declared between its two children: the children list follows the
\* declaration order, not the position of the parent
ChildrenAroundParent ==
    /\ ~output.pending
    /\ DistinctIds(input)
    /\ Len(input) = 3
    /\ input[1].parentId = input[2].id
    /\ input[3].parentId = input[2].id
    /\ output.nodes[2].children = <<input[1].id, input[3].id>>

\* the parentId of config i is the id of no step of the list
DanglingParent(configs, i) ==
    /\ ParentOrNull(configs[i].parentId) # Null
    /\ \A j \in 1..Len(configs) : configs[j].id # configs[i].parentId
\* the list with the parentId of config i taken away
WithoutParent(configs, i) == [configs EXCEPT ![i].parentId = Null]
\* the step of config i is a node, no node has it as a child, and each node has
\* the children it has when config i names no parent
OrphanIsRootOnly(i) ==
    LET nodes == output.nodes
        plain == buildStepTree(WithoutParent(input, i))
    IN  /\ ~output.threw
        /\ \E n \in 1..Len(nodes) : nodes[n].id = input[i].id
        /\ \A p \in 1..Len(nodes) : Occurrences(nodes[p].children, input[i].id) = 0
        /\ Len(plain) = Len(nodes)
        /\ \A p \in 1..Len(nodes) : nodes[p].children = plain[p].children

\* C32 as stated: whenever buildStepTree has been applied to a list in which the
\* parentId of some step is the id of no step, it raised no error, that step is
\* in the output and in no node's children, and the children lists of the nodes
\* are the same as if that step had no parent.
DanglingParentIgnored ==
    ~output.pending =>
        \A i \in 1..Len(input) : DanglingParent(input, i) => OrphanIsRootOnly(i)

\* C32, for lists with pairwise distinct ids: whenever buildStepTree has been
\* applied to such a list in which the parentId of some step is the id of no
\* step, it raised no error, that step is in the output and in no node's
\* children, and the children lists of the nodes are the same as if that step
\* had no parent.
DanglingParentIgnoredDistinct ==
    (~output.pending /\ DistinctIds(input)) =>
        \A i \in 1..Len(input) : DanglingParent(input, i) => OrphanIsRootOnly(i)

\* a step with a missing parent next to a parent with a child
OrphanBesideFamily ==
    /\ ~output.pending
    /\ DistinctIds(input)
    /\ \E i \in 1..Len(input) : DanglingParent(input, i)
    /\ \E p \in 1..Len(output.nodes) : Len(output.nodes[p].children) = 1

----------------------------------------------------------------------------
(* Diffs (GitService.getDiff, parseDiffOutput) *)

\* files a diff may touch, and lines a new file may have
MaxFiles == 2
MaxLines == 2

\* the id of git's empty tree
EmptyTree == "4b825dc642cb6eb9a060e54bf8d69288fbee4904"
\* a path is the sequence of its pieces; Arrow is the piece " => "
Arrow == " => "
includesArrow(filePath) == \E i \in 1..Len(filePath) : filePath[i] = Arrow

\* a line of the diff text, by what the two regular expressions and startsWith
\* see of it: a "diff --git a/<a> b/<b>" header, an "@@ -oldStart,oldLines
\* +newStart,newLines @@" header, a line starting with "+", "-" or " ", or
\* any other line.  Omitted stands for a ",lines" part that is not there.
Omitted == -1
Line(kind) ==
    [kind |-> kind, a |-> <<>>, b |-> <<>>,
     oldStart |-> 0, oldLines |-> 0, newStart |-> 0, newLines |-> 0]
FileHeader(a, b) == [Line("diff --git") EXCEPT !.a = a, !.b = b]
HunkHeader(oldStart, oldLines, newStart, newLines) ==
    [Line("@@") EXCEPT !.oldStart = oldStart, !.oldLines = oldLines,
                       !.newStart = newStart, !.newLines = newLines]

\* hunkMatch[2] ? parseInt(hunkMatch[2], 10) : 1
LinesOrOne(lines) == IF lines = Omitted THEN 1 ELSE lines

NoFile == <<>>
NoHunk == [oldStart |-> 0, oldLines |-> 0, newStart |-> 0, newLines |-> 0, content |-> <<>>]
ParserStart ==
    [hunksMap |-> <<>>, currentFile |-> NoFile, hasHunk |-> FALSE,
     currentHunk |-> NoHunk, hunkContent |-> <<>>]

\* the save that sets the file's list to the one hunk instead of pushing to it
Flush_Overwrite(st) ==
    IF st.currentFile # NoFile /\ st.hasHunk
    THEN LET hunk == [st.currentHunk EXCEPT !.content = st.hunkContent]
         IN  IF st.currentFile \in DOMAIN st.hunksMap
             THEN [st.hunksMap EXCEPT ![st.currentFile] = <<hunk>>]
             ELSE st.hunksMap @@ (st.currentFile :> <<hunk>>)
    ELSE st.hunksMap

\* the current hunk, if there is one, is pushed to the list of the current file
Flush(st) ==
    IF st.currentFile # NoFile /\ st.hasHunk
    THEN LET hunk == [st.currentHunk EXCEPT !.content = st.hunkContent]
         IN  IF st.currentFile \in DOMAIN st.hunksMap
             THEN [st.hunksMap EXCEPT ![st.currentFile] = Append(@, hunk)]
             ELSE st.hunksMap @@ (st.currentFile :> <<hunk>>)
    ELSE st.hunksMap

\* the body of the loop over the lines
ParseLine(st, line) ==
    IF line.kind = "diff --git"
    THEN [hunksMap |-> Flush(st), currentFile |-> line.b, hasHunk |-> FALSE,
          currentHunk |-> NoHunk, hunkContent |-> <<>>]
    ELSE IF line.kind = "@@" /\ st.currentFile # NoFile
         THEN [hunksMap |-> IF st.hasHunk THEN Flush(st) ELSE st.hunksMap,
               currentFile |-> st.currentFile,
               hasHunk |-> TRUE,
               currentHunk |-> [oldStart |-> line.oldStart,
                                oldLines |-> LinesOrOne(line.oldLines),
                                newStart |-> line.newStart,
                                newLines |-> LinesOrOne(line.newLines),
                                content |-> <<>>],
               hunkContent |-> <<line>>]
         ELSE IF st.hasHunk /\ line.kind \in {"+", "-", " "}
              THEN [st EXCEPT !.hunkContent = Append(@, line)]
              ELSE st

RECURSIVE ParseLines(_, _, _)
ParseLines(lines, i, st) ==
    IF i > Len(lines) THEN st ELSE ParseLines(lines, i + 1, ParseLine(st, lines[i]))

parseDiffOutput(diffOutput) == Flush(ParseLines(diffOutput, 1, ParserStart))

\* an entry of diffSummary.files: a text file carries insertions and deletions,
\* a binary file does not
TextFile(file, insertions, deletions) ==
    [file |-> file, text |-> TRUE, insertions |-> insertions, deletions |-> deletions]
BinaryFile(file) == [file |-> file, text |-> FALSE, insertions |-> 0, deletions |-> 0]

\* the refs getDiff hands to git.diffSummary and git.diff
DiffArgs(fromRef, toRef) ==
    IF fromRef = "" THEN <<EmptyTree, toRef>> ELSE <<fromRef, toRef>>

\* a classification that calls every file with insertions only added
Status_InsertionsOnlyAdded(file, fromRef, hunksMap) ==
    LET counted == IF file.text /\ file.insertions > 0 /\ file.deletions = 0
                   THEN "added"
                   ELSE IF file.text /\ file.deletions > 0 /\ file.insertions = 0
                        THEN "deleted"
                        ELSE "modified"
        renamed == IF includesArrow(file.file) THEN "renamed" ELSE counted
    IN  IF /\ file.file \in DOMAIN hunksMap
           /\ Len(hunksMap[file.file]) > 0
           /\ hunksMap[file.file][1].oldLines = 0
        THEN "added"
        ELSE renamed

\* the status getDiff gives a file: the three ifs in turn, a later one
\* overwriting what an earlier one set
Status(file, fromRef, hunksMap) ==
    LET counted == IF file.text /\ file.insertions > 0 /\ file.deletions = 0
                                /\ fromRef = ""
                   THEN "added"
                   ELSE IF file.text /\ file.deletions > 0 /\ file.insertions = 0
                        THEN "deleted"
                        ELSE "modified"
        renamed == IF includesArrow(file.file) THEN "renamed" ELSE counted
    IN  IF /\ file.file \in DOMAIN hunksMap
           /\ Len(hunksMap[file.file]) > 0
           /\ hunksMap[file.file][1].oldLines = 0
        THEN "added"
        ELSE renamed

\* the FileDiff list getDiff returns for what git answered
getDiff(fromRef, diffSummary, diffOutput) ==
    LET hunksMap == parseDiffOutput(diffOutput)
    IN  [i \in 1..Len(diffSummary) |->
            LET file == diffSummary[i]
            IN  [filePath |-> file.file,
                 status |-> Status(file, fromRef, hunksMap),
                 additions |-> IF file.text THEN file.insertions ELSE 0,
                 deletions |-> IF file.text THEN file.deletions ELSE 0,
                 hunks |-> IF file.file \in DOMAIN hunksMap
                           THEN hunksMap[file.file]
                           ELSE <<>>]]

----------------------------------------------------------------------------
(* getDiff on its own, on what git answers for a comparison *)

\* the k-th file of a comparison and, for a rename, its new name
FileName(k) == <<"a", "b", "c">>[k]
NewName(k) == <<"x", "y", "z">>[k]

\* what a comparison may find for one file: kinds "new ..." are what a
\* comparison against the empty tree finds, the others need a tree to start from
NewKinds == {"new text", "new empty", "new binary", "new text, arrow in name"}
ChangeKinds ==
    NewKinds \cup {"append", "trim", "edit", "fill", "deleted", "renamed", "renamed, edit"}
Changes(kinds) ==
    {change \in [kind : kinds, lines : 1..MaxLines] :
        change.kind \notin {"new text", "new text, arrow in name"} => change.lines = 1}

\* the path git reports for the k-th file in the summary
SummaryPath(change, k) ==
    CASE change.kind \in {"renamed", "renamed, edit"} -> <<FileName(k), Arrow, NewName(k)>>
      [] change.kind = "new text, arrow in name" -> <<FileName(k), Arrow, "txt">>
      [] OTHER -> <<FileName(k)>>

\* the entry of diffSummary.files for a change
SummaryOf(change, k) ==
    CASE change.kind \in {"new text", "new text, arrow in name"} ->
             TextFile(SummaryPath(change, k), change.lines, 0)
      [] change.kind = "new empty" -> TextFile(SummaryPath(change, k), 0, 0)
      [] change.kind = "new binary" -> BinaryFile(SummaryPath(change, k))
      [] change.kind \in {"append", "fill"} -> TextFile(SummaryPath(change, k), 1, 0)
      [] change.kind \in {"trim", "deleted"} -> TextFile(SummaryPath(change, k), 0, 1)
      [] change.kind \in {"edit", "renamed, edit"} -> TextFile(SummaryPath(change, k), 1, 1)
      [] change.kind = "renamed" -> TextFile(SummaryPath(change, k), 0, 0)

\* the lines of the diff text for a change: the file header, the extended header
\* lines, "--- " and "+++ " where there is a hunk, then the hunk
PatchOf(change, k) ==
    LET old == IF change.kind = "new text, arrow in name"
               THEN SummaryPath(change, k) ELSE <<FileName(k)>>
        new == IF change.kind \in {"renamed", "renamed, edit"}
               THEN <<NewName(k)>> ELSE old
        head == <<FileHeader(old, new), Line("other"), Line("other")>>
        marks == <<Line("-"), Line("+")>>
        count(n) == IF n = 1 THEN Omitted ELSE n
    IN  CASE change.kind \in {"new text", "new text, arrow in name"} ->
                 head \o marks \o <<HunkHeader(0, 0, 1, count(change.lines))>>
                      \o [i \in 1..change.lines |-> Line("+")]
          [] change.kind = "new empty" -> head
          [] change.kind = "new binary" -> head \o <<Line("other")>>
          [] change.kind = "append" ->
                 head \o marks \o <<HunkHeader(1, Omitted, 1, 2), Line(" "), Line("+")>>
          [] change.kind = "trim" ->
                 head \o marks \o <<HunkHeader(1, 2, 1, Omitted), Line(" "), Line("-")>>
          [] change.kind \in {"edit", "renamed, edit"} ->
                 head \o marks
                      \o <<HunkHeader(1, Omitted, 1, Omitted), Line("-"), Line("+")>>
          [] change.kind = "fill" ->
                 head \o marks \o <<HunkHeader(0, 0, 1, Omitted), Line("+")>>
          [] change.kind = "deleted" ->
                 head \o marks \o <<HunkHeader(1, Omitted, 0, 0), Line("-")>>
          [] change.kind = "renamed" -> head

RECURSIVE PatchesOf(_, _)
PatchesOf(changes, k) ==
    IF k > Len(changes) THEN <<>>
    ELSE PatchOf(changes[k], k) \o PatchesOf(changes, k + 1)

\* a getDiff call and what the comparison it asks for finds
ChangeLists(kinds) == UNION {[1..n -> Changes(kinds)] : n \in 0..MaxFiles}
DiffCalls ==
    {[fromRef |-> "", toRef |-> "r1", changes |-> changes] :
        changes \in ChangeLists(NewKinds)}
    \cup {[fromRef |-> "r1", toRef |-> "r2", changes |-> changes] :
             changes \in ChangeLists(ChangeKinds)}

GetDiff ==
    /\ output.pending
    /\ output' =
           [pending |-> FALSE, threw |-> FALSE,
            args |-> DiffArgs(input.fromRef, input.toRef),
            fileDiffs |->
                getDiff(input.fromRef,
                        [k \in 1..Len(input.changes) |-> SummaryOf(input.changes[k], k)],
                        PatchesOf(input.changes, 1))]
    /\ UNCHANGED <<input, managerVars, progressVars>>

DiffInit ==
    /\ Untouched
    /\ input \in DiffCalls
    /\ output = NoOutput

DiffNext == GetDiff

DiffSpec == DiffInit /\ [][DiffNext]_vars

----------------------------------------------------------------------------
(* Properties of getDiff *)

\* the lines of the file a change introduces
LineCount(change) ==
    IF change.kind \in {"new text", "new text, arrow in name"} THEN change.lines ELSE 0

\* C18: whenever getDiff has returned for an empty fromRef, it has compared the
\* canonical empty tree with toRef, and every file that toRef introduces is
\* reported with status added, a first hunk with oldLines = 0 and newLines equal
\* to the file's line count.
IntroducedFilesAdded ==
    (~output.pending /\ input.fromRef = "") =>
        /\ output.args = <<EmptyTree, input.toRef>>
        /\ Len(output.fileDiffs) = Len(input.changes)
        /\ \A k \in 1..Len(input.changes) :
               LET fileDiff == output.fileDiffs[k]
               IN  /\ fileDiff.status = "added"
                   /\ Len(fileDiff.hunks) > 0
                   /\ fileDiff.hunks[1].oldLines = 0
                   /\ fileDiff.hunks[1].newLines = LineCount(input.changes[k])

FirstHunkOldLinesZero(fileDiff) ==
    Len(fileDiff.hunks) > 0 /\ fileDiff.hunks[1].oldLines = 0
InsertionsOnly(fileDiff) == fileDiff.additions > 0 /\ fileDiff.deletions = 0
DeletionsOnly(fileDiff) == fileDiff.deletions > 0 /\ fileDiff.additions = 0

\* the priority rules as the claim has them
ClaimedStatus(fileDiff, emptyTree) ==
    IF includesArrow(fileDiff.filePath) THEN "renamed"
    ELSE IF emptyTree /\ FirstHunkOldLinesZero(fileDiff) THEN "added"
    ELSE IF InsertionsOnly(fileDiff) THEN "added"
    ELSE IF DeletionsOnly(fileDiff) THEN "deleted"
    ELSE "modified"

\* the priority rules with the first-hunk rule first and in every comparison,
\* and the insertions-only rule in the empty-tree comparison only
PriorityStatus(fileDiff, emptyTree) ==
    IF FirstHunkOldLinesZero(fileDiff) THEN "added"
    ELSE IF includesArrow(fileDiff.filePath) THEN "renamed"
    ELSE IF emptyTree /\ InsertionsOnly(fileDiff) THEN "added"
    ELSE IF DeletionsOnly(fileDiff) THEN "deleted"
    ELSE "modified"

\* C19 as stated: whenever getDiff has returned, the status of every file is
\* the result of the rules: renamed if the path contains the arrow; else added
\* if this is the empty-tree comparison and the first hunk has oldLines = 0;
\* else added if insertions > 0 and deletions = 0; else deleted if deletions > 0
\* and insertions = 0; else modified.
StatusByClaimedPriority ==
    ~output.pending =>
        \A k \in 1..Len(output.fileDiffs) :
            output.fileDiffs[k].status
                = ClaimedStatus(output.fileDiffs[k], input.fromRef = "")

\* C19, with the rules as getDiff applies them: whenever getDiff has returned,
\* the status of every file is: added if its first hunk has oldLines = 0; else
\* renamed if the path contains the arrow; else added if this is the empty-tree
\* comparison and insertions > 0 and deletions = 0; else deleted if deletions >
\* 0 and insertions = 0; else modified.  A file that is renamed and also
\* modified is classified renamed.
StatusByPriority ==
    ~output.pending =>
        \A k \in 1..Len(output.fileDiffs) :
            /\ output.fileDiffs[k].status
                   = PriorityStatus(output.fileDiffs[k], input.fromRef = "")
            /\ input.changes[k].kind = "renamed, edit"
                   => output.fileDiffs[k].status = "renamed"

\* a comparison of two refs has found a file renamed and edited and a file with
\* a line appended: the first is reported renamed, the second modified
RenamedAndAppended ==
    /\ ~output.pending
    /\ input.fromRef # ""
    /\ \E k, l \in 1..Len(input.changes) :
          /\ input.changes[k].kind = "renamed, edit"
          /\ output.fileDiffs[k].status = "renamed"
          /\ input.changes[l].kind = "append"
          /\ output.fileDiffs[l].status = "modified"

----------------------------------------------------------------------------
(* The version-control adapter on its own (GitService), bound or not *)

\* what a call of the adapter gives its caller: the promise's outcome and, when
\* it resolves, the value as text
Returns(kind, text) == [result |-> Resolved, kind |-> kind, text |-> text]
Throws(error) == [result |-> error, kind |-> "none", text |-> ""]

\* the git command run by the method fails
GitFailed(op) == Rejected("GitError", op, <<>>)

\* the methods that start with getGit()
AdapterOps ==
    {"checkout", "getDiff", "hasUncommittedChanges", "stash", "stashPop", "refExists",
     "getCurrentRef"}

\* refExists with getGit() called inside its try block: the catch answers false
refExists_GetGitInsideTry(ok) ==
    IF ~Bound THEN Returns("boolean", "false")
    ELSE Returns("boolean", IF ok THEN "true" ELSE "false")

\* GitService.refExists: getGit(), then revparse inside try/catch
refExists(ok) ==
    IF ~Bound THEN Throws(NotInitialized)
    ELSE Returns("boolean", IF ok THEN "true" ELSE "false")

\* GitService.getRepoPath
getRepoPath ==
    IF gitRepoPath = NoPath THEN Returns("null", "") ELSE Returns("path", "repoPath")

\* GitService.initialize
AdapterInitialize(path) ==
    /\ gitRepoPath # path
    /\ gitRepoPath' = path
    /\ UNCHANGED <<pureVars, currentTutorial, gitVars, loadedEvents, stepEvents, nav, load,
                   calls, diffRequest, progressVars>>

\* files change in the clean working tree the adapter is bound to
WorkingTreeEdit(kind) ==
    /\ Bound
    /\ wt[gitRepoPath] = {}
    /\ wt' = [wt EXCEPT ![gitRepoPath] = @ \cup {kind}]
    /\ UNCHANGED <<pureVars, currentTutorial, gitRepoPath, HEAD, stashDepth, loadedEvents,
                   stepEvents, nav, load, calls, diffRequest, progressVars>>

\* one call of a method of the adapter, run to its end; ok tells whether the git
\* command it runs succeeds
AdapterCall(op, ref, ok) ==
    /\ calls < MaxCalls
    /\ calls' = calls + 1
    /\ input' = [op |-> op, ref |-> ref]
    /\ IF op = "getRepoPath"
       THEN output' = getRepoPath /\ UNCHANGED gitVars
       ELSE IF op = "refExists"
       THEN output' = refExists(ok) /\ UNCHANGED gitVars
       ELSE IF ~Bound
       THEN output' = Throws(NotInitialized) /\ UNCHANGED gitVars
       ELSE IF ~ok
       THEN output' = Throws(GitFailed(op)) /\ UNCHANGED gitVars
       ELSE IF op = "checkout"
       THEN /\ CheckoutEffect(gitRepoPath, ref)
            /\ output' = Returns("void", "")
            /\ UNCHANGED <<wt, stashDepth>>
       ELSE IF op = "stash"
       THEN /\ StashEffect(gitRepoPath)
            /\ output' = Returns("void", "")
            /\ UNCHANGED HEAD
       ELSE IF op = "stashPop"
       THEN IF stashDepth[gitRepoPath] = 0
            THEN output' = Throws(GitFailed(op)) /\ UNCHANGED gitVars
            ELSE /\ wt' = [wt EXCEPT ![gitRepoPath] = @ \cup {"tracked"}]
                 /\ stashDepth' = [stashDepth EXCEPT ![gitRepoPath] = @ - 1]
                 /\ output' = Returns("void", "")
                 /\ UNCHANGED HEAD
       ELSE IF op = "hasUncommittedChanges"
       THEN /\ output' = Returns("boolean", IF hasUncommittedChanges(gitRepoPath)
                                            THEN "true" ELSE "false")
            /\ UNCHANGED gitVars
       ELSE IF op = "getCurrentRef"
       THEN output' = Returns("ref", HEAD[gitRepoPath]) /\ UNCHANGED gitVars
       ELSE output' = Returns("diff", ref) /\ UNCHANGED gitVars
    /\ UNCHANGED <<currentTutorial, gitRepoPath, loadedEvents, stepEvents, nav, load,
                   diffRequest, progressVars>>

\* the working trees an adapter is bound to, and the refs it is called with
AdapterPaths == {LocalSource.rest, TempDir(1)}
AdapterRefs == {"r1", "r2"}

AdapterInit ==
    /\ Untouched
    /\ input = NoInput
    /\ output = NoOutput

AdapterNext ==
    \/ \E path \in AdapterPaths : AdapterInitialize(path)
    \/ \E kind \in {"tracked", "untracked"} : WorkingTreeEdit(kind)
    \/ \E op \in AdapterOps \cup {"getRepoPath"}, ref \in AdapterRefs, ok \in BOOLEAN :
           AdapterCall(op, ref, ok)

AdapterSpec == AdapterInit /\ [][AdapterNext]_vars

----------------------------------------------------------------------------
(* Properties of the adapter *)

\* C27: on an adapter that was never bound, a call of checkout, getDiff,
\* hasUncommittedChanges, stash, stashPop, refExists or getCurrentRef ends with the
\* not-initialized error, whatever git would have answered, and none of them
\* returns a value or changes a working tree; getRepoPath returns none without
\* throwing.
UnboundAdapterFails ==
    (~Bound /\ input # NoInput)
        => /\ input.op \in AdapterOps
                 => /\ output.result = NotInitialized
                    /\ output.result.status = "rejected"
                    /\ output.kind = "none"
           /\ input.op = "getRepoPath"
                 => /\ output.result = Resolved
                    /\ output.kind = "null"
           /\ HEAD = [p \in Paths |-> "r0"]
           /\ wt = [p \in Paths |-> {}]
           /\ stashDepth = [p \in Paths |-> 0]

\* refExists was called on the adapter never bound, after other calls, and threw
UnboundRefExistsThrew ==
    /\ ~Bound
    /\ calls = MaxCalls
    /\ input # NoInput
    /\ input.op = "refExists"
    /\ output.result = NotInitialized

----------------------------------------------------------------------------
(* Tutorial ids (TutorialManager.generateTutorialId) *)

\* bytes of a root path
MaxPathLen == 3

\* the bytes of "/", "a", ">" and "?"
PathBytes == {47, 97, 62, 63}

\* root paths: the non-empty byte strings up to the bound
RootPaths == UNION {[1..n -> PathBytes] : n \in 1..MaxPathLen}

\* the ids of two tutorials, loaded from the two root paths
GenerateTutorialIds ==
    /\ output.pending
    /\ output' = [pending |-> FALSE, threw |-> FALSE,
                  ids |-> <<generateTutorialId(input[1]), generateTutorialId(input[2])>>]
    /\ UNCHANGED <<input, managerVars, progressVars>>

IdInit ==
    /\ Untouched
    /\ input \in RootPaths \X RootPaths
    /\ output = NoOutput

IdNext == GenerateTutorialIds

IdSpec == IdInit /\ [][IdNext]_vars

----------------------------------------------------------------------------
(* Properties of the tutorial ids *)

\* C28: the id of a tutorial is determined by its root path alone, and two
\* tutorials with different root paths never get the same id.
IdsCollisionFree ==
    ~output.pending
        => /\ output.ids[1] = generateTutorialId(input[1])
           /\ output.ids[2] = generateTutorialId(input[2])
           /\ (output.ids[1] = output.ids[2]) <=> (input[1] = input[2])

----------------------------------------------------------------------------
(* Project export (ExportModule.exportProject) *)

\* directory levels of a working tree, and files in it
MaxDepth == 2
MaxEntries == 2

\* the entry names of the working trees
EntryNames == {".git", ".gitignore", "tutorial.yaml", "main.ts"}

\* name.startsWith('.git'), on the entry names
StartsWithDotGit(name) == name \in {".git", ".gitignore"}

\* the basenames exportProject takes for the tutorial's config document
ConfigFileNames == {"tutorial.yaml", "tutorial.yml", "tutorial.json"}

\* a file of the tree is the sequence of the names on its relative path
FilePaths == UNION {[1..n -> EntryNames] : n \in 1..MaxDepth}

IsProperPrefix(a, b) == Len(a) < Len(b) /\ \A i \in 1..Len(a) : a[i] = b[i]

\* working trees: up to MaxEntries files, none of them a directory of another
FileTrees ==
    {files \in {{listing[i] : i \in DOMAIN listing} :
                   listing \in UNION {[1..n -> FilePaths] : n \in 0..MaxEntries}} :
        \A a, b \in files : ~IsProperPrefix(a, b)}

\* the filter exportProject hands to copyDirectory, on the path relative to the root:
\* the joined path starts with '.git' iff its first name does
filter(relativePath, options) ==
    /\ ~(options.removeGitHistory /\ StartsWithDotGit(relativePath[1]))
    /\ ~(options.removeTutorialConfig
            /\ relativePath[Len(relativePath)] \in ConfigFileNames)

\* copyDirectory: an entry is copied when the filter lets it and every directory
\* above it through
copyDirectory(files, options) ==
    {f \in files : \A k \in 1..Len(f) : filter(SubSeq(f, 1, k), options)}

ExportProject ==
    /\ output.pending
    /\ output' = [pending |-> FALSE, threw |-> FALSE,
                  files |-> copyDirectory(input.files, input.options)]
    /\ UNCHANGED <<input, managerVars, progressVars>>

ExportInit ==
    /\ Untouched
    /\ input \in [files : FileTrees,
                  options : [removeGitHistory : BOOLEAN, removeTutorialConfig : BOOLEAN]]
    /\ output = NoOutput

ExportNext == ExportProject

ExportSpec == ExportInit /\ [][ExportNext]_vars

----------------------------------------------------------------------------
(* Properties of the project export *)

\* the file is in the .git directory of the root, or is the root's .git file
UnderDotGit(f) == f[1] = ".git"
\* the file is a tutorial config document at the root
RootConfigFile(f) == Len(f) = 1 /\ f[1] \in ConfigFileNames

\* C30: an export with removeGitHistory and removeTutorialConfig set copies
\* exactly the files of the working tree that are neither under .git nor a
\* tutorial config document at the root: every other file, at any depth and
\* whatever its name, is in the target, and those are not.
ExportCopiesProjectFiles ==
    (~output.pending /\ input.options.removeGitHistory
                     /\ input.options.removeTutorialConfig)
        => output.files = {f \in input.files : ~UnderDotGit(f) /\ ~RootConfigFile(f)}

----------------------------------------------------------------------------
(* The diff-text parser on its own (GitService.parseDiffOutput) *)

\* lines of a diff text
MaxDiffLines == 4

\* the lines a diff text is made of: headers of a file kept in place and of a
\* file renamed, hunk headers with and without the ",lines" parts, and the four
\* kinds of other lines
DiffLines ==
    {FileHeader(<<"a">>, <<"a">>), FileHeader(<<"a">>, <<"b">>),
     HunkHeader(1, Omitted, 1, 2), HunkHeader(3, 0, 2, Omitted),
     Line("+"), Line("-"), Line(" "), Line("other")}

DiffTexts == UNION {[1..n -> DiffLines] : n \in 0..MaxDiffLines}

ParseDiffOutput ==
    /\ output.pending
    /\ output' = [pending |-> FALSE, threw |-> FALSE, hunksMap |-> parseDiffOutput(input)]
    /\ UNCHANGED <<input, managerVars, progressVars>>

ParseInit ==
    /\ Untouched
    /\ input \in DiffTexts
    /\ output = NoOutput

ParseNext == ParseDiffOutput

ParseSpec == ParseInit /\ [][ParseNext]_vars

----------------------------------------------------------------------------
(* Properties of the diff-text parser *)

\* the post-change path of the last file header before line i, if any
FileOf(lines, i) ==
    LET headers == {j \in 1..(i - 1) : lines[j].kind = "diff --git"}
    IN  IF headers = {} THEN NoFile
        ELSE lines[CHOOSE j \in headers : \A k \in headers : k <= j].b

\* the first hunk or file header after line i, or the end of the text
NextHeader(lines, i) ==
    LET later == {j \in (i + 1)..Len(lines) : lines[j].kind \in {"diff --git", "@@"}}
    IN  IF later = {} THEN Len(lines) + 1
        ELSE CHOOSE j \in later : \A k \in later : j <= k

IsHunkLine(line) == line.kind \in {"+", "-", " "}

\* the +, - and space lines between the hunk header at i and the next header
HunkLines(lines, i) ==
    SelectSeq(SubSeq(lines, i + 1, NextHeader(lines, i) - 1), IsHunkLine)

\* the hunk the claim expects for the header at line i, with the given content
HunkOf(lines, i, content) ==
    [oldStart |-> lines[i].oldStart,
     oldLines |-> IF lines[i].oldLines = Omitted THEN 1 ELSE lines[i].oldLines,
     newStart |-> lines[i].newStart,
     newLines |-> IF lines[i].newLines = Omitted THEN 1 ELSE lines[i].newLines,
     content |-> content]

RECURSIVE HunksFrom(_, _, _, _)
\* one hunk per hunk header of the file from line i on, in order of appearance;
\* headerIn tells whether the content begins with the header line
HunksFrom(lines, path, i, headerIn) ==
    IF i > Len(lines) THEN <<>>
    ELSE (IF lines[i].kind = "@@" /\ FileOf(lines, i) = path
          THEN <<HunkOf(lines, i,
                        (IF headerIn THEN <<lines[i]>> ELSE <<>>) \o HunkLines(lines, i))>>
          ELSE <<>>)
         \o HunksFrom(lines, path, i + 1, headerIn)

HeaderPaths(lines) == {lines[i].b : i \in {j \in 1..Len(lines) : lines[j].kind = "diff --git"}}

\* the parser returned, for each file, the hunks expected of it and nothing else
ParsedAs(headerIn) ==
    ~output.pending
        => /\ DOMAIN output.hunksMap \subseteq HeaderPaths(input)
           /\ \A path \in HeaderPaths(input) :
                 (IF path \in DOMAIN output.hunksMap THEN output.hunksMap[path] ELSE <<>>)
                     = HunksFrom(input, path, 1, headerIn)

\* C31 as stated: for each file, keyed by the post-change path of its header, the
\* parser yields exactly one hunk per @@ header, in order of appearance, with
\* oldLines / newLines 1 where the ",lines" part is omitted, and the content of a
\* hunk is exactly the +, - and space lines that follow its header up to the
\* next hunk or file header, in order.
HunkPerHeaderLinesOnly == ParsedAs(FALSE)

\* C31, with the header in the content: the same, and the content of a hunk is
\* its @@ header line followed by the +, - and space lines that follow it up to
\* the next hunk or file header, in order.
HunkPerHeaderWithHeaderLine == ParsedAs(TRUE)

\* a renamed file with two hunks, the first with a removed and an added line
TwoHunksParsed ==
    /\ ~output.pending
    /\ input = <<FileHeader(<<"a">>, <<"b">>), HunkHeader(1, Omitted, 1, 2),
                 Line("-"), HunkHeader(3, 0, 2, Omitted)>>
    /\ Len(output.hunksMap[<<"b">>]) = 2
    /\ output.hunksMap[<<"b">>][1].oldLines = 1
    /\ output.hunksMap[<<"b">>][2].newLines = 1

----------------------------------------------------------------------------
(* Properties of the step graph of an accepted config *)

\* the steps of an accepted document as the StepConfig[] loadTutorial hands to
\* buildStepTree
StepConfigsOf(items) ==
    [i \in 1..Len(items) |->
        StepConfig(items[i].id.v, items[i].gitRef.v,
                   IF items[i].parentId.t = "string" THEN items[i].parentId.v ELSE Null)]

\* StepTreeProvider.getChildren(undefined): the steps without a parent
RootIds(nodes) == {nodes[i].id : i \in {j \in 1..Len(nodes) : nodes[j].parentId = Null}}

RECURSIVE ShownIds(_, _, _)
\* the ids of the tree items after expanding n levels below the items `ids`:
\* getChildren(element) maps element.stepNode.children through stepMap
ShownIds(nodes, ids, n) ==
    IF n = 0 THEN ids
    ELSE ShownIds(nodes,
                  ids \cup (UNION {{nodes[i].children[k] : k \in 1..Len(nodes[i].children)} :
                                       i \in {j \in 1..Len(nodes) : nodes[j].id \in ids}}
                               \cap {nodes[i].id : i \in 1..Len(nodes)}),
                  n - 1)

RECURSIVE AncestorIds(_, _, _)
\* the ids reached from the ids `ids` by following parentId links up to n times
AncestorIds(nodes, ids, n) ==
    IF n = 0 THEN ids
    ELSE AncestorIds(nodes,
                     ids \cup {nodes[i].parentId :
                                  i \in {j \in 1..Len(nodes) :
                                            nodes[j].id \in ids /\ nodes[j].parentId # Null}},
                     n - 1)

\* C36: whenever validate has accepted a config, the step graph built of its
\* steps is a forest every step of which the step tree shows: no step is its own
\* ancestor through parentId links, and every step is reached from a root
\* through the children lists.
AcceptedStepsFormShownForest ==
    (~output.pending /\ ~output.threw /\ output.valid) =>
        LET nodes == buildStepTree(StepConfigsOf(input.steps.items))
        IN  /\ \A i \in 1..Len(nodes) :
                   nodes[i].parentId # Null
                       => nodes[i].id \notin AncestorIds(nodes, {nodes[i].parentId}, Len(nodes))
            /\ \A i \in 1..Len(nodes) :
                   nodes[i].id \in ShownIds(nodes, RootIds(nodes), Len(nodes))

----------------------------------------------------------------------------
(* Properties of the diff shown after a navigation *)

\* the positions at which the step list declares a step with the id
DeclaredAt(steps, stepId) == {i \in 1..Len(steps) : steps[i].id = stepId}

\* the two refs git is asked to compare for the step declared at position i
DeclaredDiff(steps, i) ==
    <<IF i = 1 THEN EmptyTree ELSE steps[i - 1].gitRef, steps[i].gitRef>>

\* C39: whenever a navigation to step s succeeds, the diff then asked for compares
\* the gitRef of the step declared immediately before s in the step list of the
\* tutorial, or the empty tree when s is declared first, with the gitRef of s,
\* whatever the parentId of s is and whichever step was current before.
DiffFromDeclaredPredecessor ==
    [][\A p \in NavCalls :
          Navigated(p)
              => LET steps == currentTutorial'.steps
                     at == DeclaredAt(steps, nav[p].stepId)
                 IN  /\ at # {}
                     /\ \A i \in at :
                            DiffArgs(diffRequest'.fromRef, diffRequest'.toRef)
                                = DeclaredDiff(steps, i)]_vars

====
